---- MODULE Spec2Model ----
(***************************************************************************)
(* Job orchestration core of the forensic-avatar backend: the in-memory    *)
(* JobStore (services/job_service.py), the background runner               *)
(* run_analysis_job and the polling endpoints (api/jobs.py).               *)
(***************************************************************************)
EXTENDS Integers, Sequences, FiniteSets, TLC

(* ------------------------------ bounds -------------------------------- *)
\* Number of job identifiers uuid4() can hand out in one exploration.
MaxJobs == 2
\* Largest reading of datetime.utcnow() (the clock never goes back).
MaxClock == 1
\* Number of images of the one conversation that has images.
MaxImages == 2
\* Number of calls the direct client of the JobStore makes.
MaxCalls == 4
\* Number of analysis jobs submitted through the HTTP API.
MaxRuns == 1
\* Largest number of items one detect_objects or extract_text call returns.
MaxItems == 1
\* Largest number of fragments one streaming language-model call produces.
MaxTokens == 3

\* Largest confidence, in thousandths (1000 is 1.0).
MaxConfidence == 1000
\* Largest number of images whose evidence the chat context is built from.
MaxEvidence == 2

\* Number of threads that call the JobStore at the same time.
MaxThreads == 2
\* Largest number of JobStore calls one thread makes.
MaxThreadCalls == 2

\* list_jobs' default limit at the HTTP endpoint.
DefaultLimit == 20

(* ------------------------------ values -------------------------------- *)
\* Python's Optional: None is the empty sequence, a value x is <<x>>.
None == <<>>
Some(x) == <<x>>

JobIds == 1..MaxJobs

\* class JobStatus
PENDING == "pending"
RUNNING == "running"
COMPLETED == "completed"
FAILED == "failed"
JobStatus == {PENDING, RUNNING, COMPLETED, FAILED}

\* str(x) of an identifier x: its text.
str(x) == <<"id", x>>

\* The empty dict.
EmptyDict == [k \in {} |-> 0]

VARIABLES
    jobs,    \* JobStore._jobs: its keys, in dict insertion order
    heap,    \* the Job objects ever constructed, by id (a deleted job's object lives on
             \* while somebody holds a reference to it)
    issued,  \* every identifier uuid4() has returned so far
    now,     \* the latest reading of datetime.utcnow()
    last,    \* the latest call a direct client of the JobStore made, with what it returned
    run,     \* run_analysis_job's frame for each job whose task was scheduled
    db,      \* the relational store: the conversation, its images and messages
    poll,    \* the get_job_status request in progress and the response it builds
    snaps,   \* per job, every value the Job object has had (history, for the claims)
    stream,  \* analyze_stream_generator's frame, with the events it has yielded
    sync,    \* analyze_conversation's frame (POST /analyze), with the response it gives
    chat,    \* the evidence rows _build_evidence_context reads and the text it returns
    submit,  \* what the latest POST /jobs request was answered
    seen,    \* what a polling client keeps of the response before its latest request
    lock     \* JobStore._lock: who holds it, and where each thread is in its call

storeVars == <<jobs, heap, issued, now>>
progVars == <<run, db, poll, snaps, stream, sync, chat, submit, seen, lock>>

(* ---------------------------- JobStore --------------------------------- *)
\* `job_id in self._jobs`
InStore(id) == \E i \in 1..Len(jobs) : jobs[i] = id

\* datetime.utcnow() read when the clock showed t: the same reading or a later one.
utcnow_after(t) == {u \in t..(t + 1) : u <= MaxClock}

\* datetime.utcnow()
utcnow == utcnow_after(now)

\* uuid4() reusing the identifier of a deleted job.
uuid4_reused == {id \in JobIds : ~InStore(id)}

\* uuid4(): an identifier never returned before (the least unused one: identifiers
\* are opaque, so which fresh one is returned does not matter).
uuid4 == {id \in JobIds \ issued : \A other \in JobIds \ issued : id <= other}

\* Job(id=..., status=PENDING, created_at=..., updated_at=...) with the dataclass defaults.
Job(id, created, updated) ==
    [id |-> id, status |-> PENDING, created_at |-> created, updated_at |-> updated,
     current_step |-> None, progress |-> EmptyDict, result |-> None, error |-> None]

\* dict.update replaced by an assignment: the new dict overwrites the old one.
dict_assign(old, delta) == delta

\* dict.update(delta): keys of delta overwritten, the other keys kept.
dict_update(old, delta) ==
    [k \in (DOMAIN old) \cup (DOMAIN delta) |->
        IF k \in DOMAIN delta THEN delta[k] ELSE old[k]]

\* The keyword arguments of update_job, each None when not given.
NoArgs == [status |-> None, current_step |-> None, progress |-> None,
           result |-> None, error |-> None]

\* update_job refreshing updated_at only when it is given a field.
update_fields_lazy(job, a, t) ==
    [job EXCEPT
        !.status = IF a.status # None THEN a.status[1] ELSE @,
        !.current_step = IF a.current_step # None THEN a.current_step ELSE @,
        !.progress = IF a.progress # None THEN dict_update(@, a.progress[1]) ELSE @,
        !.result = IF a.result # None THEN a.result ELSE @,
        !.error = IF a.error # None THEN a.error ELSE @,
        !.updated_at = IF a = NoArgs THEN @ ELSE t]

\* The body of update_job on a job that was found.
update_fields(job, a, t) ==
    [job EXCEPT
        !.status = IF a.status # None THEN a.status[1] ELSE @,
        !.current_step = IF a.current_step # None THEN a.current_step ELSE @,
        !.progress = IF a.progress # None THEN dict_update(@, a.progress[1]) ELSE @,
        !.result = IF a.result # None THEN a.result ELSE @,
        !.error = IF a.error # None THEN a.error ELSE @,
        !.updated_at = t]

\* create_job without `self._jobs[job_id] = job`: the Job object is returned only.
create_job_unregistered(id, created, updated) ==
    /\ heap' = [i \in (DOMAIN heap) \cup {id} |->
                   IF i = id THEN Job(id, created, updated) ELSE heap[i]]
    /\ jobs' = jobs
    /\ issued' = issued \cup {id}
    /\ now' = updated

\* JobStore.create_job, storing the job under `id`.
create_job(id, created, updated) ==
    /\ heap' = [i \in (DOMAIN heap) \cup {id} |->
                   IF i = id THEN Job(id, created, updated) ELSE heap[i]]
    /\ jobs' = IF InStore(id) THEN jobs ELSE Append(jobs, id)
    /\ issued' = issued \cup {id}
    /\ now' = updated

\* JobStore.get_job: a reference to the Job object, or None.
get_job(id) == IF InStore(id) THEN Some(id) ELSE None

\* update_job creating the job when the id is unknown.
update_job_upsert(id, a) ==
    \E t \in utcnow :
        /\ heap' = [i \in (DOMAIN heap) \cup {id} |->
                       IF i = id
                       THEN update_fields(IF InStore(id) THEN heap[id] ELSE Job(id, t, t), a, t)
                       ELSE heap[i]]
        /\ jobs' = IF InStore(id) THEN jobs ELSE Append(jobs, id)
        /\ now' = t
        /\ UNCHANGED issued

\* update_job writing the fields to every job in the dict.
update_job_every_job(id, a) ==
    IF InStore(id)
    THEN \E t \in utcnow :
            /\ heap' = [o \in DOMAIN heap |->
                           IF InStore(o) THEN update_fields(heap[o], a, t) ELSE heap[o]]
            /\ now' = t
            /\ UNCHANGED <<jobs, issued>>
    ELSE UNCHANGED storeVars

\* JobStore.update_job.
update_job(id, a) ==
    IF InStore(id)
    THEN \E t \in utcnow :
            /\ heap' = [heap EXCEPT ![id] = update_fields(@, a, t)]
            /\ now' = t
            /\ UNCHANGED <<jobs, issued>>
    ELSE UNCHANGED storeVars

\* A delete that leaves the dict as it is.
dict_del_nothing(keys, id) == keys

\* `del self._jobs[job_id]`
dict_del(keys, id) == SelectSeq(keys, LAMBDA k : k # id)

\* JobStore.delete_job: the dict afterwards.
delete_job(id) == IF InStore(id) THEN dict_del(jobs, id) ELSE jobs

\* A sorted list with one more job inserted: behind every job that is at least as
\* recent (the sort is stable, so equal keys keep their dict order).
RECURSIVE insert_desc(_, _)
insert_desc(s, id) ==
    IF s = <<>> THEN <<id>>
    ELSE IF heap[s[1]].created_at >= heap[id].created_at
         THEN <<s[1]>> \o insert_desc(Tail(s), id)
         ELSE <<id>> \o s

\* sorted(..., reverse=True) sorting in ascending order instead.
RECURSIVE sorted_ascending(_)
sorted_ascending(keys) ==
    IF keys = <<>> THEN <<>>
    ELSE LET rest == sorted_ascending(Tail(keys))
             older == SelectSeq(rest, LAMBDA k : heap[k].created_at < heap[keys[1]].created_at)
             newer == SelectSeq(rest, LAMBDA k : heap[k].created_at >= heap[keys[1]].created_at)
         IN older \o <<keys[1]>> \o newer

\* sorted(self._jobs.values(), key=lambda j: j.created_at, reverse=True)
RECURSIVE sorted_by_created_at(_)
sorted_by_created_at(keys) ==
    IF keys = <<>> THEN <<>>
    ELSE insert_desc(sorted_by_created_at(SubSeq(keys, 1, Len(keys) - 1)), keys[Len(keys)])

\* s[:limit], Python's slice: a negative limit counts from the end.
slice_to(s, limit) ==
    LET stop == IF limit >= 0
                THEN (IF limit < Len(s) THEN limit ELSE Len(s))
                ELSE (IF Len(s) + limit > 0 THEN Len(s) + limit ELSE 0)
    IN SubSeq(s, 1, stop)

\* JobStore.list_jobs: references to the jobs returned.
list_jobs(limit) == slice_to(sorted_by_created_at(jobs), limit)


(* --------------------------- relational store -------------------------- *)
\* class ImageStatus
IMG_PENDING == "pending"
IMG_PROCESSING == "processing"
IMG_COMPLETED == "completed"

\* The conversation ids a request can name: "c1" is the conversation of the store,
\* "c0" names no conversation.
ConversationIds == {"c1", "c0"}

\* db.query(Conversation).filter(Conversation.id == c).first() finds a row.
conversation_found(c) == c = "c1" /\ db.conv

\* db.query(Image).filter(Image.conversation_id == c).all(): the number of rows.
images_of(c) == IF conversation_found(c) THEN db.nimg ELSE 0

\* A commit that writes the status and loses the new rows.
Committed_without_rows(i, status, nobj, ntxt) == [db EXCEPT !.status[i] = status]

\* A commit whose rows replace the rows the image had.
Committed_replacing(i, status, nobj, ntxt) ==
    [db EXCEPT !.status[i] = status, !.objects[i] = nobj, !.texts[i] = ntxt]

\* db.commit() with image i given this status and the session holding so many new
\* DetectedObject and ExtractedText rows for it.
Committed(i, status, nobj, ntxt) ==
    [db EXCEPT !.status[i] = status, !.objects[i] = @ + nobj, !.texts[i] = @ + ntxt]

\* get_presigned_url(image.storage_url): the URL under which image i can be fetched
\* (an opaque value per stored object; negative numbers keep URLs apart from indexes).
get_presigned_url(i) == 0 - i

(* --------------------------------- text -------------------------------- *)
\* Text is a sequence of characters; the language model streams it in fragments.
Chars == {" ", "a"}
\* The fragments a streaming language-model call can produce: empty, blank, a letter.
Tokens == {<<>>, <<" ">>, <<"a">>}

\* str.strip() returning the string as it is.
strip_nothing(s) == s

\* str.lstrip()
RECURSIVE lstrip(_)
lstrip(s) == IF s # <<>> /\ s[1] = " " THEN lstrip(Tail(s)) ELSE s

\* str.rstrip()
RECURSIVE rstrip(_)
rstrip(s) == IF s # <<>> /\ s[Len(s)] = " " THEN rstrip(SubSeq(s, 1, Len(s) - 1)) ELSE s

\* str.strip()
strip(s) == rstrip(lstrip(s))

(* ------------------- what a run does to its collaborators --------------- *)
\* One entry of a run's record of the calls it made and the rows it committed: the
\* operation, the image it is about (0: none), the numbers that go with it, the URLs
\* and the text it carries.
Did(op, image, n, m, urls, text) ==
    [op |-> op, image |-> image, n |-> n, m |-> m, urls |-> urls, text |-> text]
\* image.status = ImageStatus.PROCESSING; db.commit()
MarkedProcessing(i) == Did("processing", i, 0, 0, <<>>, <<>>)
\* detect_objects(presigned_url) returned n objects
Detected(i, n) == Did("detect", i, n, 0, <<get_presigned_url(i)>>, <<>>)
\* extract_text(presigned_url) returned n texts
Extracted(i, n) == Did("ocr", i, n, 0, <<get_presigned_url(i)>>, <<>>)
\* image.status = ImageStatus.COMPLETED; db.commit()
MarkedCompleted(i) == Did("completed", i, 0, 0, <<>>, <<>>)
\* the language model called with the evidence: n objects and m texts
Generated(n, m) == Did("nlp", 0, n, m, <<>>, <<>>)
\* a collaborator call that raised (for a status mark or the message: the presigned
\* url or the commit raised, and nothing was written)
Failing(op, i) == Did(op, i, -1, 0, <<>>, <<>>)
\* the assistant message with this id and content added and committed
Persisted(id, content) == Did("message", 0, id, 0, <<>>, content)
\* the same, with db.refresh(assistant_msg) raising after the commit
Unrefreshed(id, content) == Did("message", 0, id, -1, <<>>, content)

(* --------------------------- run_analysis_job -------------------------- *)
\* The contents generate_hypothesis can return: text is a sequence of characters.
Hypotheses == {<<"a">>, <<" ", "a">>}

Driven(j) == j \in DOMAIN run

\* The progress dicts and the result the runner writes.
ProgressOf(idx, total, step) == [k \in {"image", "total_images", "step"} |->
    CASE k = "image" -> idx [] k = "total_images" -> total [] OTHER -> step]
NlpProgress == [k \in {"step", "status"} |->
    IF k = "step" THEN "nlp" ELSE "generating hypothesis"]
ResultOf(msg, hyp, nobj, ntxt) ==
    [message_id |-> msg, hypothesis |-> hyp, objects_detected |-> nobj, texts_extracted |-> ntxt]

\* The frame of a task that background_tasks.add_task has scheduled.
\* objects, texts: len(all_objects_data), len(all_texts_data); new_objects, new_texts:
\* the rows added to the session since its last commit; hypothesis: the content
\* generate_hypothesis returned; steps: the current_step values written to the job;
\* escaped: an exception left run_analysis_job; response: what POST /jobs answered;
\* session: the Session SessionLocal() returned (0: none yet); closes: the db.close()
\* calls made on it.
Frame(c) == [pc |-> "queued", conversation |-> c, total |-> 0, idx |-> 0,
             objects |-> 0, texts |-> 0, new_objects |-> 0, new_texts |-> 0,
             hypothesis |-> <<>>, msg |-> 0, err |-> None, log |-> <<>>,
             steps |-> <<>>, escaped |-> FALSE, response |-> None,
             session |-> 0, closes |-> 0]

Goto(j, pc) == run' = [run EXCEPT ![j].pc = pc]
\* An exception with message msg reaches `except Exception as e`.
Raise(j, msg) == run' = [run EXCEPT ![j].pc = "except", ![j].err = Some(msg)]
\* The same for a storage call, which is recorded as having failed.
RaiseIn(j, msg, d) == run' = [run EXCEPT ![j].pc = "except", ![j].err = Some(msg),
                                         ![j].log = Append(@, d)]
\* The current_step values written so far, after update_job(j, **a).
StepsAfter(j, a) == IF InStore(j) /\ a.current_step # None
                    THEN Append(run[j].steps, a.current_step[1])
                    ELSE run[j].steps

\* The Job object of job j gets a new value: remember it.
Snap(j) == snaps' = IF j \in DOMAIN heap'
                    THEN [i \in (DOMAIN snaps) \cup {j} |->
                            (IF i \in DOMAIN snaps THEN snaps[i] ELSE {}) \cup
                            (IF i = j THEN {heap'[j]} ELSE {})]
                    ELSE snaps

\* A runner that returns early when update_job finds no job.
RunnerUpdateOrReturn(j, a, next) ==
    /\ update_job(j, a)
    /\ Snap(j)
    /\ run' = [run EXCEPT ![j].pc = IF InStore(j) THEN next ELSE "close",
                          ![j].steps = StepsAfter(j, a)]

\* A job_store.update_job call of the runner, which ignores what the call returns
\* and goes on with the statement at `next`.
RunnerUpdate(j, a, next) ==
    /\ update_job(j, a)
    /\ Snap(j)
    /\ run' = [run EXCEPT ![j].pc = next, ![j].steps = StepsAfter(j, a)]

\* f"Conversation {conversation_id} not found"
not_found_message(c) ==
    IF c = "c1" THEN "Conversation c1 not found" ELSE "Conversation c0 not found"

\* A factory that hands a caller the Session it handed out last, when there is one.
SessionLocal_shared == IF db.sessions = 0 THEN db.sessions + 1 ELSE db.sessions

\* SessionLocal(): a new Session, the next one the store has been asked for.
SessionLocal == db.sessions + 1

\* lines 46-49: the task starts: db = SessionLocal(), update_job(RUNNING, "validating")
run_start(j) ==
    /\ run[j].pc = "queued"
    /\ LET a == [NoArgs EXCEPT !.status = Some(RUNNING), !.current_step = Some("validating")]
       IN /\ update_job(j, a)
          /\ Snap(j)
          /\ run' = [run EXCEPT ![j].pc = "query_conversation", ![j].steps = StepsAfter(j, a),
                                ![j].session = SessionLocal]
    /\ db' = [db EXCEPT !.sessions = @ + 1]
    /\ UNCHANGED <<poll, last, stream, sync, chat, submit, seen, lock>>

\* The lookup without the `return` of line 59: the run goes on after the job failed.
run_query_conversation_no_return(j) ==
    /\ run[j].pc = "query_conversation"
    /\ \/ /\ conversation_found(run[j].conversation)
          /\ Goto(j, "query_images")
          /\ UNCHANGED <<storeVars, snaps>>
       \/ /\ ~conversation_found(run[j].conversation)
          /\ RunnerUpdate(j, [NoArgs EXCEPT !.status = Some(FAILED),
                                            !.error = Some(not_found_message(run[j].conversation))],
                          "query_images")
       \/ /\ Raise(j, "query failed")
          /\ UNCHANGED <<storeVars, snaps>>
    /\ UNCHANGED <<db, poll, last, stream, sync, chat, submit, seen, lock>>

\* lines 52-59: the conversation is looked up
run_query_conversation(j) ==
    /\ run[j].pc = "query_conversation"
    /\ \/ /\ conversation_found(run[j].conversation)
          /\ Goto(j, "query_images")
          /\ UNCHANGED <<storeVars, snaps>>
       \/ /\ ~conversation_found(run[j].conversation)
          /\ RunnerUpdate(j, [NoArgs EXCEPT !.status = Some(FAILED),
                                            !.error = Some(not_found_message(run[j].conversation))],
                          "close")
       \/ /\ Raise(j, "query failed")
          /\ UNCHANGED <<storeVars, snaps>>
    /\ UNCHANGED <<db, poll, last, stream, sync, chat, submit, seen, lock>>

\* A validation that also moves the job to a step of its own when it fails.
run_query_images_marks_step(j) ==
    /\ run[j].pc = "query_images"
    /\ \/ /\ images_of(run[j].conversation) > 0
          /\ run' = [run EXCEPT ![j].pc = "mark_processing", ![j].idx = 1,
                                ![j].total = images_of(run[j].conversation)]
          /\ UNCHANGED <<storeVars, snaps>>
       \/ /\ images_of(run[j].conversation) = 0
          /\ RunnerUpdate(j, [NoArgs EXCEPT !.status = Some(FAILED),
                                            !.current_step = Some("failed"),
                                            !.error = Some("No images in conversation")],
                          "close")
       \/ /\ Raise(j, "query failed")
          /\ UNCHANGED <<storeVars, snaps>>
    /\ UNCHANGED <<db, poll, last, stream, sync, chat, submit, seen, lock>>

\* lines 61-72: its images are listed
run_query_images(j) ==
    /\ run[j].pc = "query_images"
    /\ \/ /\ images_of(run[j].conversation) > 0
          /\ run' = [run EXCEPT ![j].pc = "mark_processing", ![j].idx = 1,
                                ![j].total = images_of(run[j].conversation)]
          /\ UNCHANGED <<storeVars, snaps>>
       \/ /\ images_of(run[j].conversation) = 0
          /\ RunnerUpdate(j, [NoArgs EXCEPT !.status = Some(FAILED),
                                            !.error = Some("No images in conversation")],
                          "close")
       \/ /\ Raise(j, "query failed")
          /\ UNCHANGED <<storeVars, snaps>>
    /\ UNCHANGED <<db, poll, last, stream, sync, chat, submit, seen, lock>>

\* lines 75-79: presigned url, image.status = PROCESSING, commit
run_mark_processing(j) ==
    /\ run[j].pc = "mark_processing"
    /\ \/ /\ db.conv /\ run[j].idx <= db.nimg
          /\ db' = Committed(run[j].idx, IMG_PROCESSING, run[j].new_objects, run[j].new_texts)
          /\ run' = [run EXCEPT ![j].pc = "update_detection",
                                ![j].new_objects = 0, ![j].new_texts = 0,
                                ![j].log = Append(@, MarkedProcessing(run[j].idx))]
       \/ /\ RaiseIn(j, "storage failed", Failing("processing", run[j].idx))
          /\ UNCHANGED db
    /\ UNCHANGED <<storeVars, snaps, poll, last, stream, sync, chat, submit, seen, lock>>

\* A detection update that puts the job back to Pending.
run_update_detection_requeues(j) ==
    /\ run[j].pc = "update_detection"
    /\ RunnerUpdate(j, [NoArgs EXCEPT !.status = Some(PENDING),
                           !.current_step = Some("detection"),
                           !.progress = Some(ProgressOf(run[j].idx, run[j].total, "detection"))],
                    "detect")
    /\ UNCHANGED <<db, poll, last, stream, sync, chat, submit, seen, lock>>

\* lines 82-86: update_job(current_step="detection", progress=...)
run_update_detection(j) ==
    /\ run[j].pc = "update_detection"
    /\ RunnerUpdate(j, [NoArgs EXCEPT !.current_step = Some("detection"),
                           !.progress = Some(ProgressOf(run[j].idx, run[j].total, "detection"))],
                    "detect")
    /\ UNCHANGED <<db, poll, last, stream, sync, chat, submit, seen, lock>>

\* all_objects_data assigned instead of extended: only the last image's objects count.
run_detect_last_image(j) ==
    /\ run[j].pc = "detect"
    /\ \/ \E n \in 0..MaxItems :
            run' = [run EXCEPT ![j].pc = "update_ocr", ![j].objects = n,
                               ![j].new_objects = @ + n,
                               ![j].log = Append(@, Detected(run[j].idx, n))]
       \/ run' = [run EXCEPT ![j].pc = "except", ![j].err = Some("detection failed"),
                             ![j].log = Append(@, Failing("detect", run[j].idx))]
    /\ UNCHANGED <<storeVars, snaps, db, poll, last, stream, sync, chat, submit, seen, lock>>

\* lines 88-95: detect_objects and the rows added for what it found
run_detect(j) ==
    /\ run[j].pc = "detect"
    /\ \/ \E n \in 0..MaxItems :
            run' = [run EXCEPT ![j].pc = "update_ocr", ![j].objects = @ + n,
                               ![j].new_objects = @ + n,
                               ![j].log = Append(@, Detected(run[j].idx, n))]
       \/ run' = [run EXCEPT ![j].pc = "except", ![j].err = Some("detection failed"),
                             ![j].log = Append(@, Failing("detect", run[j].idx))]
    /\ UNCHANGED <<storeVars, snaps, db, poll, last, stream, sync, chat, submit, seen, lock>>

\* lines 98-102: update_job(current_step="ocr", progress=...)
run_update_ocr(j) ==
    /\ run[j].pc = "update_ocr"
    /\ RunnerUpdate(j, [NoArgs EXCEPT !.current_step = Some("ocr"),
                           !.progress = Some(ProgressOf(run[j].idx, run[j].total, "ocr"))],
                    "ocr")
    /\ UNCHANGED <<db, poll, last, stream, sync, chat, submit, seen, lock>>

\* lines 104-110: extract_text and the rows added for what it found
run_ocr(j) ==
    /\ run[j].pc = "ocr"
    /\ \/ \E n \in 0..MaxItems :
            run' = [run EXCEPT ![j].pc = "mark_completed", ![j].texts = @ + n,
                               ![j].new_texts = @ + n,
                               ![j].log = Append(@, Extracted(run[j].idx, n))]
       \/ run' = [run EXCEPT ![j].pc = "except", ![j].err = Some("ocr failed"),
                             ![j].log = Append(@, Failing("ocr", run[j].idx))]
    /\ UNCHANGED <<storeVars, snaps, db, poll, last, stream, sync, chat, submit, seen, lock>>

\* The loop body ending the loop: hypothesis generation follows the first image.
run_mark_completed_early_nlp(j) ==
    /\ run[j].pc = "mark_completed"
    /\ \/ /\ db.conv /\ run[j].idx <= db.nimg
          /\ db' = Committed(run[j].idx, IMG_COMPLETED, run[j].new_objects, run[j].new_texts)
          /\ run' = [run EXCEPT ![j].pc = "update_nlp",
                                ![j].new_objects = 0, ![j].new_texts = 0,
                                ![j].log = Append(@, MarkedCompleted(run[j].idx))]
       \/ /\ RaiseIn(j, "commit failed", Failing("completed", run[j].idx))
          /\ UNCHANGED db
    /\ UNCHANGED <<storeVars, snaps, poll, last, stream, sync, chat, submit, seen, lock>>

\* lines 112-113: image.status = COMPLETED, commit; then the next image, if any
run_mark_completed(j) ==
    /\ run[j].pc = "mark_completed"
    /\ \/ /\ db.conv /\ run[j].idx <= db.nimg
          /\ db' = Committed(run[j].idx, IMG_COMPLETED, run[j].new_objects, run[j].new_texts)
          /\ run' = IF run[j].idx < run[j].total
                    THEN [run EXCEPT ![j].pc = "mark_processing", ![j].idx = @ + 1,
                                     ![j].new_objects = 0, ![j].new_texts = 0,
                                     ![j].log = Append(@, MarkedCompleted(run[j].idx))]
                    ELSE [run EXCEPT ![j].pc = "update_nlp",
                                     ![j].new_objects = 0, ![j].new_texts = 0,
                                     ![j].log = Append(@, MarkedCompleted(run[j].idx))]
       \/ /\ RaiseIn(j, "commit failed", Failing("completed", run[j].idx))
          /\ UNCHANGED db
    /\ UNCHANGED <<storeVars, snaps, poll, last, stream, sync, chat, submit, seen, lock>>

\* lines 116-120: update_job(current_step="nlp", progress=...)
run_update_nlp(j) ==
    /\ run[j].pc = "update_nlp"
    /\ RunnerUpdate(j, [NoArgs EXCEPT !.current_step = Some("nlp"), !.progress = Some(NlpProgress)],
                    "nlp")
    /\ UNCHANGED <<db, poll, last, stream, sync, chat, submit, seen, lock>>

\* line 122: generate_hypothesis
run_nlp(j) ==
    /\ run[j].pc = "nlp"
    /\ \/ \E content \in Hypotheses :
            run' = [run EXCEPT ![j].pc = "save_message", ![j].hypothesis = content,
                               ![j].log = Append(@, Generated(run[j].objects, run[j].texts))]
       \/ run' = [run EXCEPT ![j].pc = "except", ![j].err = Some("generation failed"),
                             ![j].log = Append(@, Failing("nlp", 0))]
    /\ UNCHANGED <<storeVars, snaps, db, poll, last, stream, sync, chat, submit, seen, lock>>

\* The message saved with its content trimmed, the result reporting it as generated.
run_save_message_trimmed(j) ==
    /\ run[j].pc = "save_message"
    /\ \/ /\ db.conv
          /\ db' = [db EXCEPT !.messages = @ + 1]
          /\ run' = [run EXCEPT ![j].pc = "update_complete", ![j].msg = db.messages + 1,
                                ![j].log = Append(@, Persisted(db.messages + 1,
                                                               strip(run[j].hypothesis)))]
       \/ /\ RaiseIn(j, "commit failed", Failing("message", 0))
          /\ UNCHANGED db
    /\ UNCHANGED <<storeVars, snaps, poll, last, stream, sync, chat, submit, seen, lock>>

\* lines 125-132: the assistant message is added, committed and refreshed; the commit
\* can raise, and so can the refresh that follows it
run_save_message(j) ==
    /\ run[j].pc = "save_message"
    /\ \/ /\ db.conv
          /\ db' = [db EXCEPT !.messages = @ + 1]
          /\ run' = [run EXCEPT ![j].pc = "update_complete", ![j].msg = db.messages + 1,
                                ![j].log = Append(@, Persisted(db.messages + 1,
                                                               run[j].hypothesis))]
       \/ /\ db.conv
          /\ db' = [db EXCEPT !.messages = @ + 1]
          /\ RaiseIn(j, "refresh failed", Unrefreshed(db.messages + 1, run[j].hypothesis))
       \/ /\ RaiseIn(j, "commit failed", Failing("message", 0))
          /\ UNCHANGED db
    /\ UNCHANGED <<storeVars, snaps, poll, last, stream, sync, chat, submit, seen, lock>>

\* lines 135-145: update_job(COMPLETED, "complete", result=...)
run_update_complete(j) ==
    /\ run[j].pc = "update_complete"
    /\ RunnerUpdate(j, [NoArgs EXCEPT !.status = Some(COMPLETED), !.current_step = Some("complete"),
            !.result = Some(ResultOf(str(run[j].msg), run[j].hypothesis, run[j].objects,
                                     run[j].texts))],
                    "close")
    /\ UNCHANGED <<db, poll, last, stream, sync, chat, submit, seen, lock>>

\* The except clause recording the error without the status.
run_except_no_status(j) ==
    /\ run[j].pc = "except"
    /\ RunnerUpdate(j, [NoArgs EXCEPT !.error = run[j].err], "close")
    /\ UNCHANGED <<db, poll, last, stream, sync, chat, submit, seen, lock>>

\* The except clause naming a stage of its own.
run_except_marks_step(j) ==
    /\ run[j].pc = "except"
    /\ RunnerUpdate(j, [NoArgs EXCEPT !.status = Some(FAILED), !.current_step = Some("failed"),
                                      !.error = run[j].err],
                    "close")
    /\ UNCHANGED <<db, poll, last, stream, sync, chat, submit, seen, lock>>

\* lines 147-152: except Exception as e: update_job(FAILED, error=str(e))
run_except(j) ==
    /\ run[j].pc = "except"
    /\ RunnerUpdate(j, [NoArgs EXCEPT !.status = Some(FAILED), !.error = run[j].err],
                    "close")
    /\ UNCHANGED <<db, poll, last, stream, sync, chat, submit, seen, lock>>

\* db.close() moved into the try block: when it raises, the except clause runs.
run_close_in_try(j) ==
    /\ run[j].pc = "close"
    /\ \/ run' = [run EXCEPT ![j].pc = "done", ![j].new_objects = 0, ![j].new_texts = 0,
                             ![j].closes = @ + 1]
       \/ Raise(j, "close failed")
    /\ UNCHANGED <<storeVars, snaps, db, poll, last, stream, sync, chat, submit, seen, lock>>

\* The finally clause committing the session before it closes it.
run_close_commits(j) ==
    /\ run[j].pc = "close"
    /\ run' = [run EXCEPT ![j].pc = "done", ![j].new_objects = 0, ![j].new_texts = 0,
                          ![j].closes = @ + 1]
    /\ db' = IF db.conv /\ run[j].idx \in 1..db.nimg
             THEN [db EXCEPT !.objects[run[j].idx] = @ + run[j].new_objects,
                             !.texts[run[j].idx] = @ + run[j].new_texts]
             ELSE db
    /\ UNCHANGED <<storeVars, snaps, poll, last, stream, sync, chat, submit, seen, lock>>

\* lines 153-154: finally: db.close(), which gives up the rows not committed; an
\* exception it raises is handled nowhere and leaves run_analysis_job
run_close(j) ==
    /\ run[j].pc = "close"
    /\ \E raised \in BOOLEAN :
          run' = [run EXCEPT ![j].pc = "done", ![j].new_objects = 0, ![j].new_texts = 0,
                             ![j].escaped = raised, ![j].closes = @ + 1]
    /\ UNCHANGED <<storeVars, snaps, db, poll, last, stream, sync, chat, submit, seen, lock>>

run_analysis_job(j) ==
    \/ run_start(j)
    \/ run_query_conversation(j)
    \/ run_query_images(j)
    \/ run_mark_processing(j)
    \/ run_update_detection(j)
    \/ run_detect(j)
    \/ run_update_ocr(j)
    \/ run_ocr(j)
    \/ run_mark_completed(j)
    \/ run_update_nlp(j)
    \/ run_nlp(j)
    \/ run_save_message(j)
    \/ run_update_complete(j)
    \/ run_except(j)
    \/ run_close(j)

(* ----------------------------- HTTP endpoints -------------------------- *)
\* JobResponse(job_id=..., status=..., message=...)
JobResponse(job_id, status) ==
    [job_id |-> job_id, status |-> status,
     message |-> "Analysis job created. Poll /jobs/{job_id} for status."]

\* What the client of POST /jobs gets for its request about conversation c: the
\* HTTPException raised, or 200 with the JobResponse of job id.
NoAnswer == [conversation |-> "", status_code |-> 0, detail |-> "", job_id |-> None]
HTTPException(c, code, detail) ==
    [conversation |-> c, status_code |-> code, detail |-> detail, job_id |-> None]
Accepted(c, id) == [conversation |-> c, status_code |-> 200, detail |-> "", job_id |-> Some(id)]

\* lines 169-176: the two checks and what they raise (None when both pass)
ValidateSubmission(c) ==
    IF ~conversation_found(c) THEN Some(HTTPException(c, 404, "Conversation not found"))
    ELSE IF images_of(c) = 0 THEN Some(HTTPException(c, 400, "No images in conversation"))
    ELSE None

\* lines 179-187: the job is created and its task scheduled
ScheduleJob(c, id) ==
    \E created \in utcnow : \E updated \in utcnow_after(created) :
        /\ create_job(id, created, updated)
        /\ run' = [i \in (DOMAIN run) \cup {id} |->
                     IF i = id
                     THEN [Frame(c) EXCEPT !.response = Some(JobResponse(id, heap'[id].status))]
                     ELSE run[i]]
        /\ Snap(id)

\* A handler that creates the job and schedules its task before it looks at the
\* conversation.
create_analysis_job_creates_first(c) ==
    /\ Cardinality(DOMAIN run) < MaxRuns
    /\ \E id \in uuid4 :
          /\ ScheduleJob(c, id)
          /\ submit' = IF ValidateSubmission(c) # None THEN ValidateSubmission(c)[1]
                       ELSE Accepted(c, id)
    /\ UNCHANGED <<db, poll>>

\* POST /jobs: 404 and 400 leave everything as it was; otherwise the job is created,
\* its task scheduled and the response built from the Job object.
create_analysis_job(c) ==
    \/ /\ ValidateSubmission(c) # None
       /\ submit' = ValidateSubmission(c)[1]
       /\ UNCHANGED <<storeVars, run, db, poll, snaps>>
    \/ /\ ValidateSubmission(c) = None
       /\ Cardinality(DOMAIN run) < MaxRuns
       /\ \E id \in uuid4 : ScheduleJob(c, id) /\ submit' = Accepted(c, id)
       /\ UNCHANGED <<db, poll>>

\* The response get_job_status builds, before any field is read.
BlankResponse == [status |-> "", current_step |-> None, progress |-> EmptyDict,
                  created_at |-> 0, updated_at |-> 0, result |-> None, error |-> None]

\* The fields of JobStatusResponse, as a Job carries them.
Response(job) == [status |-> job.status, current_step |-> job.current_step,
                  progress |-> job.progress, created_at |-> job.created_at,
                  updated_at |-> job.updated_at, result |-> job.result, error |-> job.error]

\* GET /jobs/{id}, lines 199-201: job_store.get_job, 404 when it returns None
\* (`failed` remembers, for the claims, whether the job had failed when the request
\* found it)
get_job_status_get(id) ==
    /\ poll.pc \in {"idle", "done"}
    /\ poll' = IF get_job(id) = None
               THEN [pc |-> "idle", id |-> 0, resp |-> BlankResponse, failed |-> FALSE]
               ELSE [pc |-> "status", id |-> id, resp |-> BlankResponse,
                     failed |-> heap[id].status = FAILED]
    /\ UNCHANGED <<storeVars, run, db, snaps>>

\* lines 203-212: the fields of the Job object are read one after the other, outside
\* the lock; progress is a reference to the job's dict, copied when the response
\* model is built from the arguments.
get_job_status_read ==
    /\ poll.pc \notin {"idle", "done"}
    /\ LET job == heap[poll.id] IN
       poll' = CASE poll.pc = "status" ->
                      [poll EXCEPT !.pc = "current_step", !.resp.status = job.status]
                 [] poll.pc = "current_step" ->
                      [poll EXCEPT !.pc = "updated_at", !.resp.current_step = job.current_step]
                 [] poll.pc = "updated_at" ->
                      [poll EXCEPT !.pc = "result", !.resp.created_at = job.created_at,
                                   !.resp.updated_at = job.updated_at]
                 [] poll.pc = "result" ->
                      [poll EXCEPT !.pc = "error", !.resp.result = job.result]
                 [] poll.pc = "error" ->
                      [poll EXCEPT !.pc = "progress", !.resp.error = job.error]
                 [] OTHER ->
                      [poll EXCEPT !.pc = "done", !.resp.progress = job.progress]
    /\ UNCHANGED <<storeVars, run, db, snaps>>

\* A client polling job id: it sends the next request and keeps, of the response to
\* its previous request for the job, the status and the current_step.
client_poll(id) ==
    /\ seen' = IF poll.pc = "done" /\ poll.id = id
               THEN Some([id |-> id, status |-> poll.resp.status,
                          current_step |-> poll.resp.current_step])
               ELSE None
    /\ get_job_status_get(id)

\* DELETE /jobs/{id}
api_delete_job(id) ==
    /\ jobs' = delete_job(id)
    /\ UNCHANGED <<heap, issued, now, progVars>>

\* DELETE /conversations/{id}: the conversation goes with its images and messages.
delete_conversation(c) ==
    /\ db' = IF conversation_found(c)
             THEN [conv |-> FALSE, nimg |-> 0, status |-> <<>>, objects |-> <<>>,
                   texts |-> <<>>, messages |-> 0, sessions |-> db.sessions]
             ELSE db
    /\ UNCHANGED <<storeVars, run, poll, snaps>>

\* The sequence s without its element at i.
RemoveAt(s, i) == SubSeq(s, 1, i - 1) \o SubSeq(s, i + 1, Len(s))

\* DELETE /upload/{image_id} for the conversation's i-th image: 404 when there is no
\* such image; otherwise the image goes, and its rows with it
delete_image(i) ==
    /\ db' = IF db.conv /\ i \in 1..db.nimg
             THEN [db EXCEPT !.nimg = @ - 1, !.status = RemoveAt(@, i),
                             !.objects = RemoveAt(@, i), !.texts = RemoveAt(@, i)]
             ELSE db
    /\ UNCHANGED <<storeVars, run, poll, snaps>>

(* ----------------------- analyze_stream_generator ---------------------- *)
\* An SSE event {"event": name, "data": json.dumps(data)}; data is the dict that is
\* serialised, its keys as in the source.
Event(name, data) == [event |-> name, data |-> data]
StartData(n) == [k \in {"status", "total_images"} |-> IF k = "status" THEN "starting" ELSE n]
StepData(step) == [k \in {"step"} |-> step]
TextData(token) == [k \in {"text"} |-> token]
CompleteData(id, hyp) == [k \in {"message_id", "hypothesis"} |-> IF k = "message_id" THEN id ELSE hyp]
ErrorData(msg) == [k \in {"error"} |-> msg]

\* the vision model called with the URLs of the images
Viewed(urls) == Did("vision", 0, 0, 0, urls, <<>>)

\* No generator yet.
NoStream == [pc |-> "none", conversation |-> "c0", basic |-> FALSE, total |-> 0, idx |-> 0,
             objects |-> 0, texts |-> 0, new_objects |-> 0, new_texts |-> 0,
             image_urls |-> <<>>, full_hypothesis |-> <<>>,
             msg |-> 0, err |-> None, events |-> <<>>, log |-> <<>>,
             yielded |-> FALSE, closed |-> FALSE, escaped |-> FALSE,
             session |-> 0, closes |-> 0]

\* The generator is resumed and runs to statement pc.
At(f, pc) == [f EXCEPT !.pc = pc, !.yielded = FALSE]
\* The generator yields event e and is suspended there.
Yield(f, e) == [f EXCEPT !.events = Append(@, e), !.yielded = TRUE]
\* The generator calls a collaborator or commits: d is recorded.
Do(f, d) == [f EXCEPT !.log = Append(@, d)]
\* An exception with message msg reaches `except Exception as e`.
Raised(f, msg) == [f EXCEPT !.pc = "except", !.err = Some(msg), !.yielded = FALSE]

\* The text events yielded so far.
NumTexts(f) == Cardinality({i \in 1..Len(f.events) : f.events[i].event = "text"})

\* POST /analyze/stream: the generator is created and iterated.
analyze_stream(c, basic) ==
    /\ stream.pc = "none"
    /\ stream' = [NoStream EXCEPT !.pc = "query_conversation", !.conversation = c,
                                  !.basic = basic]
    /\ UNCHANGED <<storeVars, run, db, poll, snaps, last, sync, chat, submit, seen, lock>>

\* The lookup without the `return` of line 183: the run goes on after the error event.
stream_query_conversation_no_return ==
    /\ stream.pc = "query_conversation"
    /\ LET opened == [stream EXCEPT !.session = SessionLocal]
       IN \/ /\ conversation_found(stream.conversation)
             /\ stream' = At(opened, "query_images")
          \/ /\ ~conversation_found(stream.conversation)
             /\ stream' = Yield(At(opened, "query_images"),
                                Event("error", ErrorData("Conversation not found")))
          \/ stream' = Raised(opened, "query failed")
    /\ db' = [db EXCEPT !.sessions = @ + 1]
    /\ UNCHANGED <<storeVars, run, poll, snaps, last, sync, chat, submit, seen, lock>>

\* lines 176-183: the generator starts: db = SessionLocal(); the conversation is
\* looked up
stream_query_conversation ==
    /\ stream.pc = "query_conversation"
    /\ LET opened == [stream EXCEPT !.session = SessionLocal]
       IN \/ /\ conversation_found(stream.conversation)
             /\ stream' = At(opened, "query_images")
          \/ /\ ~conversation_found(stream.conversation)
             /\ stream' = Yield(At(opened, "finally"),
                                Event("error", ErrorData("Conversation not found")))
          \/ stream' = Raised(opened, "query failed")
    /\ db' = [db EXCEPT !.sessions = @ + 1]
    /\ UNCHANGED <<storeVars, run, poll, snaps, last, sync, chat, submit, seen, lock>>

\* The start event placed after the first image was marked Processing.
stream_query_images_late_start ==
    /\ stream.pc = "query_images"
    /\ \/ /\ images_of(stream.conversation) > 0
          /\ db.conv
          /\ db' = [db EXCEPT !.status[1] = IMG_PROCESSING]
          /\ stream' = Yield(Do([At(stream, IF stream.basic THEN "detect" ELSE "premium_processing")
                                   EXCEPT !.total = images_of(stream.conversation), !.idx = 1],
                                MarkedProcessing(1)),
                             Event("start", StartData(images_of(stream.conversation))))
       \/ /\ images_of(stream.conversation) = 0
          /\ stream' = Yield(At(stream, "finally"),
                             Event("error", ErrorData("No images in conversation")))
          /\ UNCHANGED db
       \/ /\ stream' = Raised(stream, "query failed")
          /\ UNCHANGED db
    /\ UNCHANGED <<storeVars, run, poll, snaps, last, sync, chat, submit, seen, lock>>

\* lines 186-191: the images are listed; `start` is yielded with their number
stream_query_images ==
    /\ stream.pc = "query_images"
    /\ \/ /\ images_of(stream.conversation) > 0
          /\ stream' = Yield([At(stream, IF stream.basic THEN "mark_processing"
                                                          ELSE "premium_processing")
                                 EXCEPT !.total = images_of(stream.conversation), !.idx = 1],
                             Event("start", StartData(images_of(stream.conversation))))
       \/ /\ images_of(stream.conversation) = 0
          /\ stream' = Yield(At(stream, "finally"),
                             Event("error", ErrorData("No images in conversation")))
       \/ stream' = Raised(stream, "query failed")
    /\ UNCHANGED <<storeVars, run, db, poll, snaps, last, sync, chat, submit, seen, lock>>

\* lines 198-215: presigned url, image.status = PROCESSING, commit, `progress` detection
stream_mark_processing ==
    /\ stream.pc = "mark_processing"
    /\ \/ /\ db.conv /\ stream.idx <= db.nimg
          /\ db' = Committed(stream.idx, IMG_PROCESSING, stream.new_objects, stream.new_texts)
          /\ stream' = Yield(Do([At(stream, "detect") EXCEPT !.new_objects = 0, !.new_texts = 0],
                                MarkedProcessing(stream.idx)),
                             Event("progress", ProgressOf(stream.idx, stream.total, "detection")))
       \/ /\ stream' = Do(Raised(stream, "storage failed"), Failing("processing", stream.idx))
          /\ UNCHANGED db
    /\ UNCHANGED <<storeVars, run, poll, snaps, last, sync, chat, submit, seen, lock>>

\* A detection failure that is swallowed: the image counts as having no objects.
stream_detect_swallow ==
    /\ stream.pc = "detect"
    /\ \/ \E n \in 0..MaxItems :
            stream' = Yield(Do([At(stream, "ocr") EXCEPT !.objects = @ + n,
                                                          !.new_objects = @ + n],
                               Detected(stream.idx, n)),
                            Event("progress", ProgressOf(stream.idx, stream.total, "ocr")))
       \/ stream' = Yield(Do(At(stream, "ocr"), Failing("detect", stream.idx)),
                          Event("progress", ProgressOf(stream.idx, stream.total, "ocr")))
    /\ UNCHANGED <<storeVars, run, db, poll, snaps, last, sync, chat, submit, seen, lock>>

\* lines 217-242: detect_objects, the rows for what it found, `progress` ocr
stream_detect ==
    /\ stream.pc = "detect"
    /\ \/ \E n \in 0..MaxItems :
            stream' = Yield(Do([At(stream, "ocr") EXCEPT !.objects = @ + n,
                                                          !.new_objects = @ + n],
                               Detected(stream.idx, n)),
                            Event("progress", ProgressOf(stream.idx, stream.total, "ocr")))
       \/ stream' = Do(Raised(stream, "detection failed"), Failing("detect", stream.idx))
    /\ UNCHANGED <<storeVars, run, db, poll, snaps, last, sync, chat, submit, seen, lock>>

\* lines 244-257: extract_text and the rows for what it found
stream_ocr ==
    /\ stream.pc = "ocr"
    /\ \/ \E n \in 0..MaxItems :
            stream' = Do([At(stream, "mark_completed") EXCEPT !.texts = @ + n,
                                                              !.new_texts = @ + n],
                         Extracted(stream.idx, n))
       \/ stream' = Do(Raised(stream, "ocr failed"), Failing("ocr", stream.idx))
    /\ UNCHANGED <<storeVars, run, db, poll, snaps, last, sync, chat, submit, seen, lock>>

\* lines 260-261: image.status = COMPLETED, commit; then the next image, if any
stream_mark_completed ==
    /\ stream.pc = "mark_completed"
    /\ \/ /\ db.conv /\ stream.idx <= db.nimg
          /\ db' = Committed(stream.idx, IMG_COMPLETED, stream.new_objects, stream.new_texts)
          /\ stream' = Do(IF stream.idx < stream.total
                          THEN [At(stream, "mark_processing") EXCEPT
                                   !.idx = @ + 1, !.new_objects = 0, !.new_texts = 0]
                          ELSE [At(stream, "progress_nlp") EXCEPT
                                   !.new_objects = 0, !.new_texts = 0],
                          MarkedCompleted(stream.idx))
       \/ /\ stream' = Do(Raised(stream, "commit failed"), Failing("completed", stream.idx))
          /\ UNCHANGED db
    /\ UNCHANGED <<storeVars, run, poll, snaps, last, sync, chat, submit, seen, lock>>

\* image_urls assigned instead of appended to: only the latest URL is kept.
premium_mark_processing_one_url ==
    /\ stream.pc = "premium_processing"
    /\ \/ /\ db.conv /\ stream.idx <= db.nimg
          /\ db' = [db EXCEPT !.status[stream.idx] = IMG_PROCESSING]
          /\ stream' = Yield(Do([(IF stream.idx < stream.total
                                  THEN [At(stream, "premium_processing") EXCEPT !.idx = @ + 1]
                                  ELSE At(stream, "progress_nlp"))
                                   EXCEPT !.image_urls = <<get_presigned_url(stream.idx)>>],
                                MarkedProcessing(stream.idx)),
                             Event("progress", ProgressOf(stream.idx, stream.total, "processing")))
       \/ /\ stream' = Do(Raised(stream, "storage failed"), Failing("processing", stream.idx))
          /\ UNCHANGED db
    /\ UNCHANGED <<storeVars, run, poll, snaps, last, sync, chat, submit, seen, lock>>

\* lines 281-298: presigned url collected, image.status = PROCESSING, commit,
\* `progress` processing; then the next image, if any
premium_mark_processing ==
    /\ stream.pc = "premium_processing"
    /\ \/ /\ db.conv /\ stream.idx <= db.nimg
          /\ db' = [db EXCEPT !.status[stream.idx] = IMG_PROCESSING]
          /\ stream' = Yield(Do([(IF stream.idx < stream.total
                                  THEN [At(stream, "premium_processing") EXCEPT !.idx = @ + 1]
                                  ELSE At(stream, "progress_nlp"))
                                   EXCEPT !.image_urls = Append(@, get_presigned_url(stream.idx))],
                                MarkedProcessing(stream.idx)),
                             Event("progress", ProgressOf(stream.idx, stream.total, "processing")))
       \/ /\ stream' = Do(Raised(stream, "storage failed"), Failing("processing", stream.idx))
          /\ UNCHANGED db
    /\ UNCHANGED <<storeVars, run, poll, snaps, last, sync, chat, submit, seen, lock>>

\* The nlp stage entered without its progress event.
stream_progress_nlp_silent ==
    /\ stream.pc = "progress_nlp"
    /\ stream' = At(stream, IF stream.basic THEN "generate" ELSE "vision")
    /\ UNCHANGED <<storeVars, run, db, poll, snaps, last, sync, chat, submit, seen, lock>>

\* lines 264-267 and 301-304: `progress` nlp
stream_progress_nlp ==
    /\ stream.pc = "progress_nlp"
    /\ stream' = Yield(At(stream, IF stream.basic THEN "generate" ELSE "vision"),
                       Event("progress", StepData("nlp")))
    /\ UNCHANGED <<storeVars, run, db, poll, snaps, last, sync, chat, submit, seen, lock>>

\* line 270: generate_hypotheses_stream_groq(all_objects_data, all_texts_data, context)
stream_generate ==
    /\ stream.pc = "generate"
    /\ \/ stream' = Do(At(stream, "tokens"), Generated(stream.objects, stream.texts))
       \/ stream' = Do(Raised(stream, "generation failed"), Failing("nlp", 0))
    /\ UNCHANGED <<storeVars, run, db, poll, snaps, last, sync, chat, submit, seen, lock>>

\* line 307: analyze_multiple_images_with_vision_stream(image_urls, context)
premium_vision ==
    /\ stream.pc = "vision"
    /\ \/ stream' = Do(At(stream, "tokens"), Viewed(stream.image_urls))
       \/ stream' = Do(Raised(stream, "generation failed"), Failing("vision", 0))
    /\ UNCHANGED <<storeVars, run, db, poll, snaps, last, sync, chat, submit, seen, lock>>

\* The premium run saving the message as soon as the model's stream ends, before the
\* images are marked Completed.
stream_token_early_save ==
    /\ stream.pc = "tokens"
    /\ \/ /\ NumTexts(stream) < MaxTokens
          /\ \E token \in Tokens :
                stream' = Yield([At(stream, "tokens") EXCEPT !.full_hypothesis = @ \o token],
                                Event("text", TextData(token)))
       \/ stream' = At(stream, "save_message")
       \/ stream' = Raised(stream, "generation failed")
    /\ UNCHANGED <<storeVars, run, db, poll, snaps, last, sync, chat, submit, seen, lock>>

\* lines 270-275 and 307-312: the next fragment is appended and yielded as `text`, or
\* the model's stream ends, or it raises
stream_token ==
    /\ stream.pc = "tokens"
    /\ \/ /\ NumTexts(stream) < MaxTokens
          /\ \E token \in Tokens :
                stream' = Yield([At(stream, "tokens") EXCEPT !.full_hypothesis = @ \o token],
                                Event("text", TextData(token)))
       \/ stream' = At(stream, IF stream.basic THEN "save_message" ELSE "premium_completed")
       \/ stream' = Raised(stream, "generation failed")
    /\ UNCHANGED <<storeVars, run, db, poll, snaps, last, sync, chat, submit, seen, lock>>

\* lines 315-317: every image.status = COMPLETED, one commit
premium_mark_completed ==
    /\ stream.pc = "premium_completed"
    /\ \/ /\ db.conv /\ stream.total <= db.nimg
          /\ db' = [db EXCEPT !.status = [i \in DOMAIN @ |->
                                            IF i <= stream.total THEN IMG_COMPLETED ELSE @[i]]]
          /\ stream' = [At(stream, "save_message") EXCEPT
                           !.log = @ \o [i \in 1..stream.total |-> MarkedCompleted(i)]]
       \/ /\ stream' = Do(Raised(stream, "commit failed"), Failing("completed", 1))
          /\ UNCHANGED db
    /\ UNCHANGED <<storeVars, run, poll, snaps, last, sync, chat, submit, seen, lock>>

\* lines 320-327: the assistant message with content full_hypothesis.strip() is added,
\* committed and refreshed; the commit can raise, and so can the refresh after it
stream_save_message ==
    /\ stream.pc = "save_message"
    /\ \/ /\ db.conv
          /\ db' = [db EXCEPT !.messages = @ + 1]
          /\ stream' = Do([At(stream, "complete") EXCEPT !.msg = db.messages + 1],
                          Persisted(db.messages + 1, strip(stream.full_hypothesis)))
       \/ /\ db.conv
          /\ db' = [db EXCEPT !.messages = @ + 1]
          /\ stream' = Do(Raised(stream, "refresh failed"),
                          Unrefreshed(db.messages + 1, strip(stream.full_hypothesis)))
       \/ /\ stream' = Do(Raised(stream, "commit failed"), Failing("message", 0))
          /\ UNCHANGED db
    /\ UNCHANGED <<storeVars, run, poll, snaps, last, sync, chat, submit, seen, lock>>

\* lines 329-335: `complete` with the message id and full_hypothesis.strip()
stream_complete ==
    /\ stream.pc = "complete"
    /\ stream' = Yield(At(stream, "finally"),
                       Event("complete", CompleteData(str(stream.msg),
                                                      strip(stream.full_hypothesis))))
    /\ UNCHANGED <<storeVars, run, db, poll, snaps, last, sync, chat, submit, seen, lock>>

\* lines 337-338: except Exception as e: `error` with str(e)
stream_except ==
    /\ stream.pc = "except"
    /\ stream' = Yield(At(stream, "finally"), Event("error", ErrorData(stream.err[1])))
    /\ UNCHANGED <<storeVars, run, db, poll, snaps, last, sync, chat, submit, seen, lock>>

\* lines 339-340: finally: db.close(), which gives up the rows not committed; the
\* generator is exhausted, or ends with the exception db.close() raised
stream_close ==
    /\ stream.pc = "finally"
    /\ \E raised \in BOOLEAN :
          stream' = [At(stream, "done") EXCEPT !.new_objects = 0, !.new_texts = 0,
                                               !.escaped = raised, !.closes = @ + 1]
    /\ UNCHANGED <<storeVars, run, db, poll, snaps, last, sync, chat, submit, seen, lock>>

\* The consumer goes away while the generator is suspended at a yield: the generator
\* is closed there (GeneratorExit is no Exception: only the finally clause runs).
stream_disconnect ==
    /\ stream.yielded /\ stream.pc # "done"
    /\ \E raised \in BOOLEAN :
          stream' = [At(stream, "done") EXCEPT !.closed = TRUE, !.new_objects = 0,
                                               !.new_texts = 0, !.escaped = raised,
                                               !.closes = @ + 1]
    /\ UNCHANGED <<storeVars, run, db, poll, snaps, last, sync, chat, submit, seen, lock>>

analyze_stream_generator ==
    \/ stream_query_conversation
    \/ stream_query_images
    \/ stream_mark_processing
    \/ stream_detect
    \/ stream_ocr
    \/ stream_mark_completed
    \/ premium_mark_processing
    \/ stream_progress_nlp
    \/ stream_generate
    \/ premium_vision
    \/ stream_token
    \/ premium_mark_completed
    \/ stream_save_message
    \/ stream_complete
    \/ stream_except
    \/ stream_close

(* ------------------------- analyze_conversation ------------------------ *)
\* The response of POST /analyze: the status code, the detail of an HTTPException or
\* the message of the exception that ended the request, and the fields of
\* AnalysisResult (images: len(image_results)).
Answer(code, detail, images, hypothesis) ==
    [code |-> code, detail |-> detail, images |-> images, hypothesis |-> hypothesis]

\* No request yet.  objects and texts are len(all_objects_data), len(all_texts_data);
\* new_objects and new_texts the rows added to the session since its last commit;
\* results is len(image_results).
NoRequest == [pc |-> "none", conversation |-> "c0", total |-> 0, idx |-> 0,
              objects |-> 0, texts |-> 0, new_objects |-> 0, new_texts |-> 0,
              results |-> 0, hypothesis |-> <<>>, log |-> <<>>, response |-> None]

\* An exception leaves the handler: the request is answered 500 and get_db's finally
\* clause runs.
Abort(f, msg) == [f EXCEPT !.pc = "close", !.response = Some(Answer(500, msg, 0, <<>>))]
\* raise HTTPException(status_code=code, detail=detail)
Refuse(f, code, detail) ==
    [f EXCEPT !.pc = "close", !.response = Some(Answer(code, detail, 0, <<>>))]

\* POST /analyze: get_db opens the session and the handler starts.
analyze_conversation(c) ==
    /\ sync.pc = "none"
    /\ sync' = [NoRequest EXCEPT !.pc = "query_conversation", !.conversation = c]
    /\ UNCHANGED <<storeVars, run, db, poll, snaps, last, stream, chat, submit, seen, lock>>

\* lines 45-47: the conversation is looked up
sync_query_conversation ==
    /\ sync.pc = "query_conversation"
    /\ \/ /\ conversation_found(sync.conversation)
          /\ sync' = [sync EXCEPT !.pc = "query_images"]
       \/ /\ ~conversation_found(sync.conversation)
          /\ sync' = Refuse(sync, 404, "Conversation not found")
       \/ sync' = Abort(sync, "query failed")
    /\ UNCHANGED <<storeVars, run, db, poll, snaps, last, stream, chat, submit, seen, lock>>

\* lines 50-57: its images are listed
sync_query_images ==
    /\ sync.pc = "query_images"
    /\ \/ /\ images_of(sync.conversation) > 0
          /\ sync' = [sync EXCEPT !.pc = "mark_processing", !.idx = 1,
                                  !.total = images_of(sync.conversation)]
       \/ /\ images_of(sync.conversation) = 0
          /\ sync' = Refuse(sync, 400, "No images in conversation")
       \/ sync' = Abort(sync, "query failed")
    /\ UNCHANGED <<storeVars, run, db, poll, snaps, last, stream, chat, submit, seen, lock>>

\* lines 60-66: presigned url, image.status = PROCESSING, commit
sync_mark_processing ==
    /\ sync.pc = "mark_processing"
    /\ \/ /\ db.conv /\ sync.idx <= db.nimg
          /\ db' = Committed(sync.idx, IMG_PROCESSING, sync.new_objects, sync.new_texts)
          /\ sync' = [sync EXCEPT !.pc = "detect", !.new_objects = 0, !.new_texts = 0,
                                  !.log = Append(@, MarkedProcessing(sync.idx))]
       \/ /\ sync' = [Abort(sync, "storage failed") EXCEPT
                         !.log = Append(@, Failing("processing", sync.idx))]
          /\ UNCHANGED db
    /\ UNCHANGED <<storeVars, run, poll, snaps, last, stream, chat, submit, seen, lock>>

\* lines 69-86: detect_objects and the rows added for what it found
sync_detect ==
    /\ sync.pc = "detect"
    /\ \/ \E n \in 0..MaxItems :
            sync' = [sync EXCEPT !.pc = "ocr", !.objects = @ + n, !.new_objects = @ + n,
                                 !.log = Append(@, Detected(sync.idx, n))]
       \/ sync' = [Abort(sync, "detection failed") EXCEPT
                      !.log = Append(@, Failing("detect", sync.idx))]
    /\ UNCHANGED <<storeVars, run, db, poll, snaps, last, stream, chat, submit, seen, lock>>

\* lines 89-104: extract_text and the rows added for what it found
sync_ocr ==
    /\ sync.pc = "ocr"
    /\ \/ \E n \in 0..MaxItems :
            sync' = [sync EXCEPT !.pc = "mark_completed", !.texts = @ + n,
                                 !.new_texts = @ + n,
                                 !.log = Append(@, Extracted(sync.idx, n))]
       \/ sync' = [Abort(sync, "ocr failed") EXCEPT
                      !.log = Append(@, Failing("ocr", sync.idx))]
    /\ UNCHANGED <<storeVars, run, db, poll, snaps, last, stream, chat, submit, seen, lock>>

\* lines 107-149: image.status = COMPLETED, commit, the new rows refreshed (a refresh
\* can raise when there is a row to refresh), the image's result appended; then the
\* next image, if any
sync_mark_completed ==
    /\ sync.pc = "mark_completed"
    /\ \/ /\ db.conv /\ sync.idx <= db.nimg
          /\ db' = Committed(sync.idx, IMG_COMPLETED, sync.new_objects, sync.new_texts)
          /\ \/ sync' = [sync EXCEPT
                           !.pc = IF sync.idx < sync.total THEN "mark_processing" ELSE "nlp",
                           !.idx = IF sync.idx < sync.total THEN @ + 1 ELSE @,
                           !.new_objects = 0, !.new_texts = 0, !.results = @ + 1,
                           !.log = Append(@, MarkedCompleted(sync.idx))]
             \/ /\ sync.new_objects + sync.new_texts > 0
                /\ sync' = [Abort(sync, "refresh failed") EXCEPT
                               !.new_objects = 0, !.new_texts = 0,
                               !.log = Append(@, MarkedCompleted(sync.idx))]
       \/ /\ sync' = [Abort(sync, "commit failed") EXCEPT
                         !.log = Append(@, Failing("completed", sync.idx))]
          /\ UNCHANGED db
    /\ UNCHANGED <<storeVars, run, poll, snaps, last, stream, chat, submit, seen, lock>>

\* line 152: generate_hypothesis
sync_nlp ==
    /\ sync.pc = "nlp"
    /\ \/ \E content \in Hypotheses :
            sync' = [sync EXCEPT !.pc = "save_message", !.hypothesis = content,
                                 !.log = Append(@, Generated(sync.objects, sync.texts))]
       \/ sync' = [Abort(sync, "generation failed") EXCEPT
                      !.log = Append(@, Failing("nlp", 0))]
    /\ UNCHANGED <<storeVars, run, db, poll, snaps, last, stream, chat, submit, seen, lock>>

\* lines 155-167: the assistant message is added and committed, AnalysisResult returned
sync_save_message ==
    /\ sync.pc = "save_message"
    /\ \/ /\ db.conv
          /\ db' = [db EXCEPT !.messages = @ + 1]
          /\ sync' = [sync EXCEPT
                         !.pc = "close",
                         !.response = Some(Answer(200, "completed", sync.results,
                                                  sync.hypothesis)),
                         !.log = Append(@, Persisted(db.messages + 1, sync.hypothesis))]
       \/ /\ sync' = [Abort(sync, "commit failed") EXCEPT
                         !.log = Append(@, Failing("message", 0))]
          /\ UNCHANGED db
    /\ UNCHANGED <<storeVars, run, poll, snaps, last, stream, chat, submit, seen, lock>>

\* get_db's finally clause: db.close(), which gives up the rows not committed
sync_close ==
    /\ sync.pc = "close"
    /\ sync' = [sync EXCEPT !.pc = "done", !.new_objects = 0, !.new_texts = 0]
    /\ UNCHANGED <<storeVars, run, db, poll, snaps, last, stream, chat, submit, seen, lock>>

analyze_conversation_handler ==
    \/ sync_query_conversation
    \/ sync_query_images
    \/ sync_mark_processing
    \/ sync_detect
    \/ sync_ocr
    \/ sync_mark_completed
    \/ sync_nlp
    \/ sync_save_message
    \/ sync_close

(* ------------------- chat_service: the evidence context ---------------- *)
\* A confidence is a number of thousandths: 800 is 0.8.
\* The thresholds compared with > instead of >=.
_confidence_label_strict(confidence) ==
    IF confidence > 800 THEN "[HIGH]"
    ELSE IF confidence > 500 THEN "[MEDIUM]"
    ELSE "[LOW]"

\* def _confidence_label(confidence: float) -> str
_confidence_label(confidence) ==
    IF confidence >= 800 THEN "[HIGH]"
    ELSE IF confidence >= 500 THEN "[MEDIUM]"
    ELSE "[LOW]"

\* A Python string built by an f-string or by join is the sequence of its pieces.
\* sep.join(parts)
RECURSIVE join(_, _)
join(sep, parts) ==
    IF parts = <<>> THEN <<>>
    ELSE IF Len(parts) = 1 THEN parts[1]
    ELSE parts[1] \o <<sep>> \o join(sep, Tail(parts))

\* f"{_confidence_label(cast(float, obj.confidence))} {obj.label}"
object_label(obj) == <<_confidence_label(obj.confidence), " ", obj.label>>

\* conf_val = text.confidence if text.confidence is not None else 0.7
conf_val(text) == IF text.confidence # None THEN text.confidence[1] ELSE 700

\* The text rows rendered like the object rows, without the quotes.
text_label_unquoted(text) == <<_confidence_label(conf_val(text)), " ", text.text>>

\* f"{_confidence_label(conf_val)} \"{text.text}\""
text_label(text) == <<_confidence_label(conf_val(text)), " \"", text.text, "\"">>

\* The loop over the images: all_objects and all_texts after it.
RECURSIVE all_objects(_)
all_objects(images) ==
    IF images = <<>> THEN <<>>
    ELSE [i \in 1..Len(images[1].objects) |-> object_label(images[1].objects[i])]
         \o all_objects(Tail(images))
RECURSIVE all_texts(_)
all_texts(images) ==
    IF images = <<>> THEN <<>>
    ELSE [i \in 1..Len(images[1].texts) |-> text_label(images[1].texts[i])]
         \o all_texts(Tail(images))

\* def _build_evidence_context(db, conversation_id) -> str, on the rows the queries
\* return: the images of the conversation, each with its objects and its texts
_build_evidence_context(images) ==
    IF images = <<>> THEN <<>>
    ELSE LET objects_str == IF all_objects(images) # <<>>
                            THEN join(", ", all_objects(images))
                            ELSE <<"No objects detected">>
             texts_str == IF all_texts(images) # <<>>
                          THEN join(", ", all_texts(images))
                          ELSE <<"No text extracted">>
         IN <<"Evidence from the scene:\nObjects detected: ">> \o objects_str
            \o <<"\nText found: ">> \o texts_str

\* The rows the queries of _build_evidence_context can return.
SeqsUpTo(S, n) == UNION {[1..k -> S] : k \in 0..n}
ObjectRows == [label : {"knife"}, confidence : {499, 800}]
TextRows == [text : {"note"}, confidence : {None, Some(500)}]
ImageRows == [objects : SeqsUpTo(ObjectRows, MaxItems), texts : SeqsUpTo(TextRows, MaxItems)]

\* Nothing called yet: the argument of _confidence_label and what it returned, the
\* rows _build_evidence_context finds and what it returned.
NoChat == [pc |-> "idle", confidence |-> 0, label |-> "", images |-> <<>>, context |-> <<>>]

confidence_label_call ==
    /\ chat.pc = "idle"
    /\ chat' = [chat EXCEPT !.pc = "labelled", !.label = _confidence_label(chat.confidence)]
    /\ UNCHANGED <<storeVars, run, db, poll, snaps, last, stream, sync, submit, seen, lock>>

build_evidence_context_call ==
    /\ chat.pc = "idle"
    /\ chat' = [chat EXCEPT !.pc = "built", !.context = _build_evidence_context(chat.images)]
    /\ UNCHANGED <<storeVars, run, db, poll, snaps, last, stream, sync, submit, seen, lock>>

(* -------------------- JobStore, statement by statement ------------------ *)
\* The threads that call the JobStore (request handlers, background tasks).
Threads == 1..MaxThreads

\* A thread that is in no JobStore call.
Idle == [pc |-> "out", op |-> "none", id |-> 0, a |-> NoArgs, before |-> None, calls |-> 0]

\* threading.Lock(), not held; every thread outside.
Unlocked == [holder |-> None, th |-> [t \in Threads |-> Idle]]

\* The update_job calls run_analysis_job makes before its loop, in it and on failure.
RunnerCalls ==
    {[NoArgs EXCEPT !.status = Some(RUNNING), !.current_step = Some("validating")],
     [NoArgs EXCEPT !.current_step = Some("detection"),
                    !.progress = Some(ProgressOf(1, MaxImages, "detection"))],
     [NoArgs EXCEPT !.status = Some(FAILED), !.error = Some("boom")]}

\* Thread t goes to the statement at pc.
Step(t, pc) == lock' = [lock EXCEPT !.th[t].pc = pc]

\* create_job, lines 38-43: the Job object is built before the lock is asked for
create_job_build(t) ==
    /\ lock.th[t].pc = "out" /\ lock.th[t].calls < MaxThreadCalls
    /\ \E id \in uuid4 : \E created \in utcnow : \E updated \in utcnow_after(created) :
          /\ heap' = [i \in (DOMAIN heap) \cup {id} |->
                         IF i = id THEN Job(id, created, updated) ELSE heap[i]]
          /\ issued' = issued \cup {id}
          /\ now' = updated
          /\ lock' = [lock EXCEPT !.th[t] = [@ EXCEPT !.pc = "with", !.op = "create", !.id = id]]
    /\ UNCHANGED <<jobs, last, run, db, poll, snaps, stream, sync, chat, submit, seen>>

\* get_job, update_job, delete_job or list_jobs is called: the thread is at its
\* `with self._lock:`
store_call(t, op, id, a) ==
    /\ lock.th[t].pc = "out" /\ lock.th[t].calls < MaxThreadCalls
    /\ lock' = [lock EXCEPT !.th[t] = [@ EXCEPT !.pc = "with", !.op = op, !.id = id, !.a = a]]
    /\ UNCHANGED <<storeVars, last, run, db, poll, snaps, stream, sync, chat, submit, seen>>

\* The first statement each method executes under the lock.
FirstStatement(op) ==
    CASE op = "create" -> "insert"
      [] op = "update" -> "lookup"
      [] OTHER -> op

\* A `with` statement that does not wait for the lock.
with_lock_enter_at_once(t) ==
    /\ lock.th[t].pc = "with"
    /\ lock' = [lock EXCEPT !.holder = Some(t), !.th[t].pc = FirstStatement(lock.th[t].op)]
    /\ UNCHANGED <<storeVars, last, run, db, poll, snaps, stream, sync, chat, submit, seen>>

\* `with self._lock:` acquires the lock, which no thread holds
with_lock_enter(t) ==
    /\ lock.th[t].pc = "with"
    /\ lock.holder = None
    /\ lock' = [lock EXCEPT !.holder = Some(t), !.th[t].pc = FirstStatement(lock.th[t].op)]
    /\ UNCHANGED <<storeVars, last, run, db, poll, snaps, stream, sync, chat, submit, seen>>

\* The statements of the methods inside their `with` block, one per step:
\* line 45 (create_job), 51 (get_job), 64-80 (update_job), 85-88 (delete_job),
\* 93-94 (list_jobs)
with_lock_body(t) ==
    /\ UNCHANGED <<last, run, db, poll, snaps, stream, sync, chat, submit, seen>>
    /\ LET f == lock.th[t]
           id == f.id
           a == f.a
       IN CASE f.pc = "insert" ->
                 /\ jobs' = IF InStore(id) THEN jobs ELSE Append(jobs, id)
                 /\ Step(t, "exit")
                 /\ UNCHANGED <<heap, issued, now>>
            [] f.pc \in {"get", "list"} ->
                 /\ Step(t, "exit")
                 /\ UNCHANGED storeVars
            [] f.pc = "delete" ->
                 /\ jobs' = delete_job(id)
                 /\ Step(t, "exit")
                 /\ UNCHANGED <<heap, issued, now>>
            [] f.pc = "lookup" ->
                 /\ lock' = IF InStore(id)
                            THEN [lock EXCEPT !.th[t].pc = "status", !.th[t].before = Some(heap[id])]
                            ELSE [lock EXCEPT !.th[t].pc = "exit"]
                 /\ UNCHANGED storeVars
            [] f.pc = "status" ->
                 /\ heap' = IF a.status # None THEN [heap EXCEPT ![id].status = a.status[1]] ELSE heap
                 /\ Step(t, "current_step")
                 /\ UNCHANGED <<jobs, issued, now>>
            [] f.pc = "current_step" ->
                 /\ heap' = IF a.current_step # None
                            THEN [heap EXCEPT ![id].current_step = a.current_step] ELSE heap
                 /\ Step(t, "progress")
                 /\ UNCHANGED <<jobs, issued, now>>
            [] f.pc = "progress" ->
                 /\ heap' = IF a.progress # None
                            THEN [heap EXCEPT ![id].progress = dict_update(@, a.progress[1])]
                            ELSE heap
                 /\ Step(t, "result")
                 /\ UNCHANGED <<jobs, issued, now>>
            [] f.pc = "result" ->
                 /\ heap' = IF a.result # None THEN [heap EXCEPT ![id].result = a.result] ELSE heap
                 /\ Step(t, "error")
                 /\ UNCHANGED <<jobs, issued, now>>
            [] f.pc = "error" ->
                 /\ heap' = IF a.error # None THEN [heap EXCEPT ![id].error = a.error] ELSE heap
                 /\ Step(t, "updated_at")
                 /\ UNCHANGED <<jobs, issued, now>>
            [] f.pc = "updated_at" ->
                 /\ \E u \in utcnow : heap' = [heap EXCEPT ![id].updated_at = u] /\ now' = u
                 /\ Step(t, "exit")
                 /\ UNCHANGED <<jobs, issued>>
            [] OTHER -> FALSE

\* the `with` block ends (by return): the lock is released and the call is over
with_lock_exit(t) ==
    /\ lock.th[t].pc = "exit"
    /\ lock' = [lock EXCEPT !.holder = None,
                            !.th[t] = [Idle EXCEPT !.calls = lock.th[t].calls + 1]]
    /\ UNCHANGED <<storeVars, last, run, db, poll, snaps, stream, sync, chat, submit, seen>>

\* Between two JobStore calls a thread calls the detector, the extractor, the
\* language model or the relational store ...
upstream_call(t) ==
    /\ lock.th[t].pc = "out"
    /\ Step(t, "upstream")
    /\ UNCHANGED <<storeVars, last, run, db, poll, snaps, stream, sync, chat, submit, seen>>

\* ... and the call returns.
upstream_return(t) ==
    /\ lock.th[t].pc = "upstream"
    /\ Step(t, "out")
    /\ UNCHANGED <<storeVars, last, run, db, poll, snaps, stream, sync, chat, submit, seen>>

(* ------------------- a direct client of the JobStore ------------------- *)
\* The update_job calls the client makes: those the runner makes (api/jobs.py) and
\* the degenerate ones (no field, an empty progress dict).
UpdateCalls ==
    {NoArgs,
     [NoArgs EXCEPT !.progress = Some(EmptyDict)],
     [NoArgs EXCEPT !.status = Some(RUNNING), !.current_step = Some("validating")],
     [NoArgs EXCEPT !.current_step = Some("detection"),
                    !.progress = Some(ProgressOf(1, MaxImages, "detection"))],
     [NoArgs EXCEPT !.current_step = Some("nlp"), !.progress = Some(NlpProgress)],
     [NoArgs EXCEPT !.progress = Some([k \in {"status"} |-> "queued"])],
     [NoArgs EXCEPT !.status = Some(COMPLETED), !.current_step = Some("complete"),
                    !.result = Some(ResultOf(str(1), <<"a">>, 0, 0))],
     [NoArgs EXCEPT !.status = Some(FAILED), !.error = Some("boom")]}

\* The `limit` query parameter of GET /jobs: absent, or a number.
Limits == {None} \cup {Some(n) : n \in -1..MaxJobs}

\* api/jobs.py list_jobs(limit: int = 20)
limit_of(q) == IF q = None THEN DefaultLimit ELSE q[1]

Called(op, id, a, q, ret) ==
    /\ last.seq < MaxCalls
    /\ last' = [seq |-> last.seq + 1, op |-> op, id |-> id, args |-> a, limit |-> q, ret |-> ret]

StoreCreate ==
    /\ \E id \in uuid4 : \E created \in utcnow : \E updated \in utcnow_after(created) :
        /\ create_job(id, created, updated)
        /\ Called("create", id, NoArgs, None, Some(id))
    /\ UNCHANGED progVars

StoreGet(id) ==
    /\ Called("get", id, NoArgs, None, get_job(id))
    /\ UNCHANGED <<storeVars, progVars>>

\* The client updates the jobs no runner drives.
StoreUpdate(id, a) ==
    /\ ~Driven(id)
    /\ update_job(id, a)
    /\ Called("update", id, a, None, get_job(id))
    /\ UNCHANGED progVars

StoreDelete(id) ==
    /\ jobs' = delete_job(id)
    /\ Called("delete", id, NoArgs, None, <<InStore(id)>>)
    /\ UNCHANGED <<heap, issued, now, progVars>>

StoreList(q) ==
    /\ Called("list", 0, NoArgs, q, list_jobs(limit_of(q)))
    /\ UNCHANGED <<storeVars, progVars>>

(* ---------------------------- specifications --------------------------- *)
vars == <<jobs, heap, issued, now, last, run, db, poll, snaps, stream, sync, chat, submit, seen, lock>>

Start ==
    /\ jobs = <<>>
    /\ heap = [i \in {} |-> 0]
    /\ issued = {}
    /\ now = 0
    /\ last = [seq |-> 0, op |-> "none", id |-> 0, args |-> NoArgs, limit |-> None, ret |-> None]
    /\ run = [i \in {} |-> 0]
    /\ \E n \in 0..MaxImages :
          db = [conv |-> TRUE, nimg |-> n, status |-> [i \in 1..n |-> IMG_PENDING],
                objects |-> [i \in 1..n |-> 0], texts |-> [i \in 1..n |-> 0],
                messages |-> 0, sessions |-> 0]
    /\ poll = [pc |-> "idle", id |-> 0, resp |-> BlankResponse, failed |-> FALSE]
    /\ snaps = [i \in {} |-> {}]
    /\ stream = NoStream
    /\ sync = NoRequest
    /\ submit = NoAnswer
    /\ seen = None
    /\ lock = Unlocked

Init == Start /\ chat = NoChat

\* The HTTP API with its background tasks; nobody polls. (Here single images are
\* deleted only while no job body has started.)
Next ==
    \/ \E c \in ConversationIds : create_analysis_job(c) /\ UNCHANGED <<last, stream, sync, chat, seen, lock>>
    \/ \E j \in DOMAIN run : run_analysis_job(j)
    \/ \E id \in JobIds : api_delete_job(id) /\ UNCHANGED <<last, stream, sync, chat, submit, seen, lock>>
    \/ \E c \in ConversationIds : delete_conversation(c) /\ UNCHANGED <<last, stream, sync, chat, submit, seen, lock>>
    \/ \E i \in 1..MaxImages :
          /\ \A j \in DOMAIN run : run[j].pc = "queued"
          /\ delete_image(i) /\ UNCHANGED <<last, stream, sync, chat, submit, seen, lock>>

Spec == Init /\ [][Next]_vars

\* The same when every call of a started body returns or raises in the end: the body
\* is the code of one thread, which goes on to its next statement.
Started(j) == IF Driven(j) THEN run[j].pc # "queued" ELSE FALSE
Returning(j) == Started(j) /\ run_analysis_job(j)
SpecLive == Init /\ [][Next]_vars /\ \A j \in JobIds : WF_vars(Returning(j))

\* The same with a client polling GET /jobs/{id}; here a conversation is deleted only
\* before a job body has started (later on the runner's storage failures stand for it),
\* db.close() returns (what it raises reaches no poll), the language model has one
\* answer to give, and the submissions are those that are accepted.
PollNext ==
    \/ \E c \in ConversationIds :
          /\ create_analysis_job(c) /\ submit'.job_id # None
          /\ UNCHANGED <<last, stream, sync, chat, seen, lock>>
    \/ \E j \in DOMAIN run :
          run_analysis_job(j) /\ ~run'[j].escaped /\ Len(run'[j].hypothesis) <= 1
    \/ \E id \in JobIds : api_delete_job(id) /\ UNCHANGED <<last, stream, sync, chat, submit, seen, lock>>
    \/ \E c \in ConversationIds :
          /\ \A j \in DOMAIN run : run[j].pc = "queued"
          /\ delete_conversation(c) /\ UNCHANGED <<last, stream, sync, chat, submit, seen, lock>>
    \/ \E id \in JobIds : get_job_status_get(id) /\ UNCHANGED <<last, stream, sync, chat, submit, seen, lock>>
    \/ get_job_status_read /\ UNCHANGED <<last, stream, sync, chat, submit, seen, lock>>

SpecPoll == Init /\ [][PollNext]_vars

\* The JobStore under the calls of a direct client.
StoreNext ==
    \/ StoreCreate
    \/ \E id \in JobIds : StoreGet(id)
    \/ \E id \in JobIds : \E a \in UpdateCalls : StoreUpdate(id, a)
    \/ \E id \in JobIds : StoreDelete(id)
    \/ \E q \in Limits : StoreList(q)

SpecStore == Init /\ [][StoreNext]_vars

\* The two uses of the JobStore side by side: either a direct client calls it, or
\* the HTTP API and its runner do.
AllNext ==
    \/ last.seq = 0 /\ Next
    \/ DOMAIN run = {} /\ StoreNext

SpecAll == Init /\ [][AllNext]_vars

\* POST /analyze/stream with its consumer, and conversations deleted meanwhile.
StreamNext ==
    \/ \E c \in ConversationIds : \E basic \in BOOLEAN : analyze_stream(c, basic)
    \/ analyze_stream_generator
    \/ stream_disconnect
    \/ \E c \in ConversationIds : delete_conversation(c) /\ UNCHANGED <<last, stream, sync, chat, submit, seen, lock>>

SpecStream == Init /\ [][StreamNext]_vars

\* POST /analyze, and conversations deleted meanwhile.
SyncNext ==
    \/ \E c \in ConversationIds : analyze_conversation(c)
    \/ analyze_conversation_handler
    \/ \E c \in ConversationIds : delete_conversation(c) /\ UNCHANGED <<last, stream, sync, chat, submit, seen, lock>>

SpecSync == Init /\ [][SyncNext]_vars

\* The delivery modes side by side: a run is a job, a stream or a synchronous request.
RunsNext ==
    \/ stream.pc = "none" /\ sync.pc = "none" /\ Next
    \/ DOMAIN run = {} /\ sync.pc = "none" /\ StreamNext
    \/ DOMAIN run = {} /\ stream.pc = "none" /\ SyncNext

SpecRuns == Init /\ [][RunsNext]_vars

\* A job and a basic stream at work at the same time on one conversation, which may
\* be deleted meanwhile. Here the clock stands still and the language model gives the
\* job one answer and the stream at most one fragment; over two images every call
\* returns and the consumer stays (the calls that raise, the consumer that goes away
\* and the conversation that is deleted are the one-image runs). The submissions are
\* those that are accepted.
SharedNext ==
    \/ /\ create_analysis_job("c1") /\ submit'.job_id # None
       /\ now' = now /\ UNCHANGED <<last, stream, sync, chat, seen, lock>>
    \/ \E j \in DOMAIN run :
          /\ run_analysis_job(j) /\ now' = now
          /\ Len(run'[j].hypothesis) <= 1
          /\ db.nimg <= 1 \/ (run'[j].err = None /\ ~run'[j].escaped)
    \/ \E c \in ConversationIds : analyze_stream(c, TRUE)
    \/ /\ analyze_stream_generator /\ NumTexts(stream') <= 1
       /\ db.nimg <= 1 \/ (stream'.err = None /\ ~stream'.escaped)
    \/ db.nimg <= 1 /\ stream_disconnect
    \/ db.nimg <= 1 /\ delete_conversation("c1") /\ UNCHANGED <<last, stream, sync, chat, submit, seen, lock>>

SpecShared == Init /\ [][SharedNext]_vars

\* A job body and a direct client of the JobStore at work at the same time, the body
\* updating its job between the client's calls. Here the clock stands still, the
\* client makes three calls, db.close() returns, the language model gives one answer,
\* calls raise only over one image, and the submissions are those that are accepted.
MixedNext ==
    \/ /\ create_analysis_job("c1") /\ submit'.job_id # None
       /\ now' = now /\ UNCHANGED <<last, stream, sync, chat, seen, lock>>
    \/ \E j \in DOMAIN run :
          /\ run_analysis_job(j) /\ now' = now /\ ~run'[j].escaped
          /\ Len(run'[j].hypothesis) <= 1
          /\ db.nimg <= 1 \/ run'[j].err = None
    \/ last.seq < MaxCalls - 1 /\ StoreNext /\ now' = now

SpecMixed == Init /\ [][MixedNext]_vars

\* A client polling a job while its body runs and comparing each response with the
\* one before. Here the clock stands still, db.close() returns, the language model
\* gives one answer, the conversation is deleted only before the body starts, and
\* the submissions are those that are accepted.
WatchNext ==
    \/ /\ create_analysis_job("c1") /\ submit'.job_id # None
       /\ now' = now /\ UNCHANGED <<last, stream, sync, chat, seen, lock>>
    \/ \E j \in DOMAIN run :
          /\ run_analysis_job(j) /\ now' = now /\ ~run'[j].escaped
          /\ Len(run'[j].hypothesis) <= 1
    \/ /\ DOMAIN run # {} /\ \A j \in DOMAIN run : run[j].pc = "queued"
       /\ delete_conversation("c1") /\ UNCHANGED <<last, stream, sync, chat, submit, seen, lock>>
    \/ \E id \in JobIds : client_poll(id) /\ UNCHANGED <<last, stream, sync, chat, submit, lock>>
    \/ get_job_status_read /\ UNCHANGED <<last, stream, sync, chat, submit, seen, lock>>

SpecWatch == Init /\ [][WatchNext]_vars

\* The JobStore under the calls of several threads, statement by statement.
LockNext ==
    \/ \E t \in Threads : create_job_build(t)
    \/ \E t \in Threads : \E id \in JobIds :
          \/ \E op \in {"get", "delete"} : store_call(t, op, id, NoArgs)
          \/ \E a \in RunnerCalls : store_call(t, "update", id, a)
    \/ \E t \in Threads : store_call(t, "list", 0, NoArgs)
    \/ \E t \in Threads : with_lock_enter(t)
    \/ \E t \in Threads : with_lock_body(t)
    \/ \E t \in Threads : with_lock_exit(t)
    \/ \E t \in Threads : upstream_call(t)
    \/ \E t \in Threads : upstream_return(t)

SpecLock == Init /\ [][LockNext]_vars

\* What a record entry says once the identifier and the content of a message are
\* left out: the call or commit, the image, and how it ended.
Outcome(d) == [d EXCEPT !.n = IF d.op = "message" THEN (IF @ >= 0 THEN 0 ELSE -1) ELSE @,
                        !.text = <<>>]
OutcomesOf(log) == [p \in 1..Len(log) |-> Outcome(log[p])]
IsPrefix(s, t) == Len(s) <= Len(t) /\ SubSeq(t, 1, Len(s)) = s

\* The collaborators answer the stream as they answered job j: a call or commit both
\* made (the same operation for the same image) ended the same way, a lookup raised
\* for the stream only if one raised for the job, and the language model streams the
\* text it returned to the job, in fragments, without raising on the way.
Replaying(j) ==
    /\ \A p \in 1..Len(stream.log) : \A q \in 1..Len(run[j].log) :
          (stream.log[p].op = run[j].log[q].op /\ stream.log[p].image = run[j].log[q].image)
              => Outcome(stream.log[p]) = Outcome(run[j].log[q])
    /\ (stream.err = Some("query failed")) => (run[j].err = Some("query failed"))
    /\ (run[j].err = Some("query failed")) => stream.total = 0
    /\ IsPrefix(stream.full_hypothesis, run[j].hypothesis)
    /\ stream.pc \in {"save_message", "complete"} => stream.full_hypothesis = run[j].hypothesis
    /\ (stream.err = Some("generation failed")) =>
          \E p \in 1..Len(stream.log) : stream.log[p] = Failing("nlp", 0)

\* The two delivery modes one after the other on the same conversation: a job runs
\* to its end, then a basic stream is requested and its collaborators answer as they
\* answered the job. (The conversation can be deleted before the job body starts;
\* the submissions are those that are accepted.)
PairNext ==
    \/ \E c \in ConversationIds :
          /\ create_analysis_job(c) /\ submit'.job_id # None
          /\ UNCHANGED <<last, stream, sync, chat, seen, lock>>
    \/ \E j \in DOMAIN run : run_analysis_job(j)
    \/ \E c \in ConversationIds :
          /\ DOMAIN run # {} /\ \A j \in DOMAIN run : run[j].pc = "queued"
          /\ delete_conversation(c) /\ UNCHANGED <<last, stream, sync, chat, submit, seen, lock>>
    \/ \E j \in DOMAIN run : run[j].pc = "done" /\ analyze_stream(run[j].conversation, TRUE)
    \/ analyze_stream_generator /\ \A j \in DOMAIN run : Replaying(j)'

SpecPair == Init /\ [][PairNext]_vars

\* _confidence_label applied to every confidence.
LabelInit == Start /\ \E c \in 0..MaxConfidence : chat = [NoChat EXCEPT !.confidence = c]
SpecLabel == LabelInit /\ [][confidence_label_call]_vars

\* _build_evidence_context applied to the rows of up to MaxEvidence images.
EvidenceInit ==
    Start /\ \E images \in SeqsUpTo(ImageRows, MaxEvidence) : chat = [NoChat EXCEPT !.images = images]
SpecEvidence == EvidenceInit /\ [][build_evidence_context_call]_vars

(* ------------------------------- claims -------------------------------- *)
Terminal(status) == status \in {COMPLETED, FAILED}
Fields(job) == <<job.status, job.current_step, job.progress, job.result, job.error>>
\* The direct client has just made a call of this kind.
JustCalled(op) == last'.seq # last.seq /\ last'.op = op
Position(id) == CHOOSE i \in 1..Len(jobs) : jobs[i] = id

\* C1: for every job the runner drives, with polls interleaved: result and error are
\* never both set, a result means Completed, an error means Failed, and once either
\* is set the status does not change any more.
C1_ResultErrorExclusive ==
    /\ [](\A j \in DOMAIN run :
            /\ ~(heap[j].result # None /\ heap[j].error # None)
            /\ (heap[j].result # None => heap[j].status = COMPLETED)
            /\ (heap[j].error # None => heap[j].status = FAILED))
    /\ [][\A j \in DOMAIN run :
            (heap[j].result # None \/ heap[j].error # None)
                => heap'[j].status = heap[j].status]_vars

\* A job completed with its result while a poll that read "running" is under way.
C1_Witness ==
    \E j \in DOMAIN run :
        /\ heap[j].status = COMPLETED /\ heap[j].result # None /\ run[j].pc = "done"
        /\ poll.id = j /\ poll.pc = "result" /\ poll.resp.status = RUNNING

\* C2: a driven job's status only steps Pending -> Running -> Completed or
\* Pending -> Running -> Failed; result is written once, by the step that sets
\* Completed, and error once, by the step that sets Failed.
C2_StatusSteps ==
    [][\A j \in DOMAIN run :
        /\ heap'[j].status # heap[j].status =>
              <<heap[j].status, heap'[j].status>> \in
                  {<<PENDING, RUNNING>>, <<RUNNING, COMPLETED>>, <<RUNNING, FAILED>>}
        /\ heap'[j].result # heap[j].result =>
              heap[j].result = None /\ heap[j].status # COMPLETED /\ heap'[j].status = COMPLETED
        /\ heap'[j].error # heap[j].error =>
              heap[j].error = None /\ heap[j].status # FAILED /\ heap'[j].status = FAILED]_vars

\* A run that failed in detection and ended.
C2_Witness ==
    \E j \in DOMAIN run :
        /\ run[j].pc = "done" /\ heap[j].status = FAILED
        /\ heap[j].error = Some("detection failed") /\ heap[j].result = None

\* C3: every response of GET /jobs/{id} is a snapshot of one value the Job had.
C3_PollSnapshot ==
    poll.pc = "done" => poll.resp \in {Response(s) : s \in snaps[poll.id]}

\* C4 as claimed: for any sequence of registry operations, a job that is Completed or
\* Failed keeps its status, current_step, progress, result and error.
C4_TerminalFrozen ==
    [][\A id \in DOMAIN heap :
        Terminal(heap[id].status) => Fields(heap'[id]) = Fields(heap[id])]_vars

\* C4 amended: a job driven by run_analysis_job gets no update once it is Completed or
\* Failed (update_job itself would apply one).
C4_DrivenTerminalFrozen ==
    [][\A j \in DOMAIN run : Terminal(heap[j].status) => heap'[j] = heap[j]]_vars

\* A driven job is terminal and its run has gone on to close the session and end.
C4_Witness ==
    \E j \in DOMAIN run : Terminal(heap[j].status) /\ run[j].pc = "done" /\ InStore(j)

\* C5: update_job merges progress key by key: the keys given are overwritten, the
\* others kept, none removed; no progress given leaves the map as it was; two updates
\* in a row with disjoint keys leave both deltas in the map.
C5_ProgressMerge ==
    [][(JustCalled("update") /\ InStore(last'.id)) =>
        LET id == last'.id
            a == last'.args
            old == heap[id].progress
            new == heap'[id].progress
        IN /\ a.progress = None => new = old
           /\ a.progress # None =>
                /\ DOMAIN new = (DOMAIN old) \cup (DOMAIN a.progress[1])
                /\ \A k \in DOMAIN a.progress[1] : new[k] = a.progress[1][k]
                /\ \A k \in (DOMAIN old) \ (DOMAIN a.progress[1]) : new[k] = old[k]
           /\ (/\ last.op = "update" /\ last.id = id /\ last.ret # None
               /\ last.args.progress # None /\ a.progress # None
               /\ (DOMAIN last.args.progress[1]) \cap (DOMAIN a.progress[1]) = {}) =>
                /\ \A k \in DOMAIN last.args.progress[1] : new[k] = last.args.progress[1][k]
                /\ \A k \in DOMAIN a.progress[1] : new[k] = a.progress[1][k]]_vars

\* The map holds the keys of two disjoint deltas, one of them just merged.
C5_Witness ==
    /\ last.op = "update" /\ last.ret # None /\ last.args.progress # None
    /\ DOMAIN heap[last.id].progress = {"image", "total_images", "step", "status"}
    /\ heap[last.id].progress["status"] = "queued"

\* C6: update_job changes the fields it is given and no other (updated_at aside), leaves
\* the other jobs alone, and on an unknown id returns None and changes nothing.
C6_UpdateFrame ==
    [][JustCalled("update") =>
        LET id == last'.id
            a == last'.args
        IN IF InStore(id)
           THEN /\ last'.ret = Some(id)
                /\ jobs' = jobs /\ issued' = issued /\ DOMAIN heap' = DOMAIN heap
                /\ \A o \in (DOMAIN heap) \ {id} : heap'[o] = heap[o]
                /\ heap'[id].id = heap[id].id
                /\ heap'[id].created_at = heap[id].created_at
                /\ heap'[id].status = IF a.status = None THEN heap[id].status ELSE a.status[1]
                /\ heap'[id].current_step =
                      IF a.current_step = None THEN heap[id].current_step ELSE a.current_step
                /\ a.progress = None => heap'[id].progress = heap[id].progress
                /\ heap'[id].result = IF a.result = None THEN heap[id].result ELSE a.result
                /\ heap'[id].error = IF a.error = None THEN heap[id].error ELSE a.error
           ELSE /\ last'.ret = None
                /\ jobs' = jobs /\ heap' = heap /\ issued' = issued /\ now' = now]_vars

\* An update that gives status and error only, on a job whose current_step and progress
\* an earlier update had set.
C6_Witness ==
    /\ last.op = "update" /\ last.ret # None
    /\ last.args.status = Some(FAILED) /\ last.args.current_step = None
    /\ heap[last.id].status = FAILED
    /\ heap[last.id].current_step = Some("detection")
    /\ heap[last.id].progress # EmptyDict

\* C7: once a driven job is deleted, the runner's later update_job calls neither put it
\* back nor change the object, and the run goes on: a run no collaborator failed, whose
\* validation passed, ends with the assistant message persisted.
C7_DeletedStaysDeleted ==
    /\ [][\A j \in DOMAIN run : ~InStore(j) =>
            /\ \A i \in 1..Len(jobs') : jobs'[i] # j
            /\ heap'[j] = heap[j]]_vars
    /\ [](\A j \in DOMAIN run :
            (run[j].pc = "done" /\ run[j].err = None /\ run[j].total > 0) => run[j].msg > 0)

\* A job deleted while detection ran: its run ended with the message persisted, the
\* job is not in the registry and its object still shows the step of the deletion.
C7_Witness ==
    \E j \in DOMAIN run :
        /\ ~InStore(j) /\ run[j].pc = "done" /\ run[j].msg > 0
        /\ heap[j].status = RUNNING /\ heap[j].current_step = Some("detection")

\* C8: delete_job removes the job and returns True exactly when the id is present,
\* otherwise returns False and changes nothing; a second delete of the same id returns
\* False, and a get after a successful delete returns None.
C8_Delete ==
    /\ [][JustCalled("delete") =>
            LET id == last'.id
            IN /\ last'.ret = <<InStore(id)>>
               /\ \A i \in 1..Len(jobs') : jobs'[i] # id
               /\ \A o \in JobIds \ {id} :
                     InStore(o) <=> (\E i \in 1..Len(jobs') : jobs'[i] = o)
               /\ Len(jobs') = IF InStore(id) THEN Len(jobs) - 1 ELSE Len(jobs)
               /\ ~InStore(id) => jobs' = jobs
               /\ heap' = heap
               /\ (last.op = "delete" /\ last.id = id /\ last.ret = <<TRUE>>)
                     => last'.ret = <<FALSE>>]_vars
    /\ [][(JustCalled("get") /\ last.op = "delete" /\ last.id = last'.id /\ last.ret = <<TRUE>>)
            => last'.ret = None]_vars

\* The second delete of a job in a row.
C8_Witness ==
    /\ last.op = "delete" /\ last.ret = <<FALSE>>
    /\ last.id \in issued /\ last.seq >= 3

\* C9 as claimed, for the limits that are counts (N >= 0): strictly descending
\* created_at, at most N and at most all jobs, the most recent ones; N = 20 when no
\* limit is given.
C9_ListStrictlyDescending ==
    (last.op = "list" /\ (last.limit = None \/ last.limit[1] >= 0)) =>
        LET r == last.ret
            N == IF last.limit = None THEN 20 ELSE last.limit[1]
        IN /\ \A i, k \in 1..Len(r) :
                 i < k => heap[r[i]].created_at > heap[r[k]].created_at
           /\ Len(r) <= N /\ Len(r) <= Len(jobs)
           /\ \A i \in 1..Len(r) : \A o \in JobIds :
                 (InStore(o) /\ \A k \in 1..Len(r) : r[k] # o)
                     => heap[r[i]].created_at >= heap[o].created_at

\* C9 amended: list_jobs(N) is jobs[:N] of the jobs sorted by created_at, latest first,
\* equal created_at in insertion order: min(N, total) jobs for N >= 0 and all but the
\* last -N for N < 0, each at least as recent as every job left out; N = 20 by default.
C9_ListRecentFirst ==
    last.op = "list" =>
        LET r == last.ret
            N == IF last.limit = None THEN 20 ELSE last.limit[1]
            total == Len(jobs)
        IN /\ \A i \in 1..Len(r) : InStore(r[i])
           /\ \A i, k \in 1..Len(r) :
                 i < k => /\ r[i] # r[k]
                          /\ heap[r[i]].created_at >= heap[r[k]].created_at
                          /\ heap[r[i]].created_at = heap[r[k]].created_at
                                => Position(r[i]) < Position(r[k])
           /\ Len(r) = IF N >= 0
                       THEN (IF N < total THEN N ELSE total)
                       ELSE (IF total + N > 0 THEN total + N ELSE 0)
           /\ \A i \in 1..Len(r) : \A o \in JobIds :
                 (InStore(o) /\ \A k \in 1..Len(r) : r[k] # o)
                     => heap[r[i]].created_at >= heap[o].created_at

\* Two jobs created at different times listed with limit 1: the later one is returned.
C9_Witness ==
    /\ last.op = "list" /\ last.limit = Some(1) /\ Len(jobs) = 2 /\ Len(last.ret) = 1
    /\ heap[last.ret[1]].created_at > heap[jobs[1]].created_at

\* C10: create_job returns a Pending job with empty progress and no current_step, result
\* or error, under an identifier never issued before, appended to the registry; every
\* existing job stays as it was.
C10_CreateFresh ==
    [][JustCalled("create") =>
        LET id == last'.id
        IN /\ id \notin issued /\ id \notin DOMAIN heap
           /\ last'.ret = Some(id)
           /\ heap'[id].id = id /\ heap'[id].status = PENDING
           /\ heap'[id].progress = EmptyDict /\ heap'[id].current_step = None
           /\ heap'[id].result = None /\ heap'[id].error = None
           /\ jobs' = Append(jobs, id)
           /\ issued' = issued \cup {id}
           /\ \A o \in DOMAIN heap : heap'[o] = heap[o]]_vars

\* A job created after another one was deleted.
C10_Witness ==
    /\ last.op = "create" /\ InStore(last.id)
    /\ \E o \in issued : o # last.id /\ ~InStore(o)

\* C11: created_at never changes; every update_job call on a job of the registry, one
\* giving no field included, sets updated_at to the clock reading of the call; always
\* created_at <= updated_at, and updated_at never goes back.
C11_Timestamps ==
    /\ [](\A id \in DOMAIN heap : heap[id].created_at <= heap[id].updated_at)
    /\ [][\A id \in DOMAIN heap :
            /\ heap'[id].created_at = heap[id].created_at
            /\ heap'[id].updated_at >= heap[id].updated_at]_vars
    /\ [][(JustCalled("update") /\ InStore(last'.id)) =>
            /\ now' \in utcnow
            /\ heap'[last'.id].updated_at = now']_vars

\* An update giving no field, made after the clock moved on: updated_at is later than
\* created_at.
C11_Witness ==
    /\ last.op = "update" /\ last.args = NoArgs /\ last.ret # None
    /\ heap[last.id].updated_at > heap[last.id].created_at

(* ---------------------- claims about the stream ------------------------- *)
TerminalEvent(e) == e.event \in {"complete", "error"}
\* The generator ran until it was exhausted (the consumer did not go away).
Exhausted == stream.pc = "done" /\ ~stream.closed
\* The last event yielded, when there is one.
LastEvent == stream.events[Len(stream.events)]
\* The payloads of the text events, in the order yielded, and their concatenation.
TextsOf(ev) == SelectSeq(ev, LAMBDA e : e.event = "text")
RECURSIVE Joined(_)
Joined(texts) == IF texts = <<>> THEN <<>> ELSE texts[1].data["text"] \o Joined(Tail(texts))
\* t is s without the blanks at its two ends.
IsTrimOf(t, s) ==
    \E a, b \in 0..Len(s) :
        /\ a + b <= Len(s)
        /\ t = SubSeq(s, a + 1, Len(s) - b)
        /\ \A i \in 1..a : s[i] = " "
        /\ \A i \in (Len(s) - b + 1)..Len(s) : s[i] = " "
        /\ t = <<>> \/ (t[1] # " " /\ t[Len(t)] # " ")

\* C12: a terminal event (complete or error) is the last event yielded, so there is at
\* most one; an exhausted stream has one; it is complete exactly when validation passed
\* and nothing raised (and then the message was persisted), and error otherwise.
C12_OneTerminalEvent ==
    /\ [](\A i \in 1..Len(stream.events) :
            TerminalEvent(stream.events[i]) => i = Len(stream.events))
    /\ [](Exhausted =>
            /\ stream.events # <<>>
            /\ TerminalEvent(LastEvent)
            /\ LastEvent.event = "complete" <=> (stream.err = None /\ stream.total > 0)
            /\ LastEvent.event = "complete" =>
                  \E i \in 1..Len(stream.log) : stream.log[i].op = "message")
    /\ [][stream.pc # "none" =>
            /\ Len(stream'.events) >= Len(stream.events)
            /\ SubSeq(stream'.events, 1, Len(stream.events)) = stream.events]_vars

\* A stream that yielded text and then failed in the language model: its last event
\* is the error.
C12_Witness ==
    /\ Exhausted /\ stream.err = Some("generation failed")
    /\ NumTexts(stream) >= 1 /\ LastEvent.event = "error"

\* C13: start is yielded at most once and only as the first event; the step that
\* yields it carries the number of images the conversation has, and has changed no
\* image status and made no call; once validation has passed it is the first event,
\* and nothing is recorded as done before it.
C13_StartFirst ==
    /\ [](\A i \in 1..Len(stream.events) : stream.events[i].event = "start" => i = 1)
    /\ [](stream.total > 0 =>
            /\ stream.events # <<>>
            /\ stream.events[1] = Event("start", StartData(stream.total)))
    /\ [](stream.log # <<>> => stream.events # <<>> /\ stream.events[1].event = "start")
    /\ [][(stream.events = <<>> /\ stream'.events # <<>> /\ stream'.events[1].event = "start") =>
            /\ stream'.events[1].data["total_images"] = images_of(stream.conversation)
            /\ images_of(stream.conversation) > 0
            /\ db' = db
            /\ stream'.log = <<>>]_vars

\* A premium stream over two images that ran to its end.
C13_Witness ==
    /\ Exhausted /\ ~stream.basic /\ Len(stream.events) > 3 /\ Len(stream.log) > 3
    /\ stream.events[1] = Event("start", StartData(2))
    /\ LastEvent.event = "complete"

\* C14: an exhausted stream for an unknown conversation id, and one for a conversation
\* without images, has yielded one event, an error, with the message "Conversation not
\* found", respectively "No images in conversation", when the lookup itself did not
\* raise; while validation has not passed there is no start event, nothing is recorded
\* as done and no step of the generator changes the store.
C14_ValidationErrors ==
    /\ []((Exhausted /\ stream.conversation = "c0") =>
            /\ Len(stream.events) = 1 /\ stream.events[1].event = "error"
            /\ stream.err = None =>
                  stream.events[1].data = ErrorData("Conversation not found"))
    /\ []((Exhausted /\ stream.conversation = "c1" /\ db.conv /\ db.nimg = 0) =>
            /\ Len(stream.events) = 1 /\ stream.events[1].event = "error"
            /\ stream.err = None =>
                  stream.events[1].data = ErrorData("No images in conversation"))
    /\ [](stream.total = 0 =>
            /\ stream.log = <<>>
            /\ \A i \in 1..Len(stream.events) : stream.events[i].event # "start")
    /\ [][(stream' # stream /\ stream'.total = 0) =>
            db' = [db EXCEPT !.sessions = db'.sessions]]_vars

\* The stream for the conversation without images ended with its one error event.
C14_Witness ==
    /\ Exhausted /\ stream.conversation = "c1" /\ db.conv /\ db.nimg = 0
    /\ stream.events = <<Event("error", ErrorData("No images in conversation"))>>

\* C15: the fragments are yielded as text events in the order they are appended to
\* the hypothesis; in a stream that yielded complete, the concatenation of the text
\* payloads, trimmed, is the hypothesis of the complete event and the content of the
\* one assistant message this run persisted.
C15_TextConcatenation ==
    /\ stream.full_hypothesis = Joined(TextsOf(stream.events))
    /\ (stream.events # <<>> /\ LastEvent.event = "complete") =>
          LET joined == Joined(TextsOf(stream.events))
              messages == SelectSeq(stream.log, LAMBDA d : d.op = "message")
          IN /\ IsTrimOf(LastEvent.data["hypothesis"], joined)
             /\ Len(messages) = 1
             /\ messages[1].text = LastEvent.data["hypothesis"]
             /\ str(messages[1].n) = LastEvent.data["message_id"]

\* A completed stream whose fragments had blanks to trim.
C15_Witness ==
    /\ stream.events # <<>> /\ LastEvent.event = "complete"
    /\ NumTexts(stream) = 3
    /\ LastEvent.data["hypothesis"] = <<"a">>
    /\ Joined(TextsOf(stream.events)) = <<" ", "a", " ">>

(* ------------------ claims about the order of the stages --------------- *)
\* What the p-th thing a basic run over n images does must be: per image, in index
\* order, Processing, detection, extraction, Completed; then hypothesis generation;
\* then (stream) the assistant message.
BasicStep(p, n) ==
    IF p <= 4 * n
    THEN [op |-> <<"processing", "detect", "ocr", "completed">>[((p - 1) % 4) + 1],
          image |-> ((p - 1) \div 4) + 1]
    ELSE [op |-> IF p = 4 * n + 1 THEN "nlp" ELSE "message", image |-> 0]
\* The same for a premium run: every image Processing, the vision call, every image
\* Completed, the assistant message.
PremiumStep(p, n) ==
    IF p <= n THEN [op |-> "processing", image |-> p]
    ELSE IF p = n + 1 THEN [op |-> "vision", image |-> 0]
    ELSE IF p <= 2 * n + 1 THEN [op |-> "completed", image |-> p - n - 1]
    ELSE [op |-> "message", image |-> 0]
\* The number of items the calls `op` of a record returned in all.
RECURSIVE Found(_, _)
Found(log, op) ==
    IF log = <<>> THEN 0
    ELSE (IF log[1].op = op /\ log[1].n > 0 THEN log[1].n ELSE 0) + Found(Tail(log), op)
\* A basic run over n images with record `log` has gone through its stages in order.
Sequential(log, n) ==
    /\ Len(log) <= 4 * n + 2
    /\ \A p \in 1..Len(log) :
          /\ log[p].op = BasicStep(p, n).op
          /\ log[p].image = BasicStep(p, n).image
          /\ (log[p].op = "nlp" /\ log[p].n >= 0) =>
                /\ log[p].n = Found(log, "detect")
                /\ log[p].m = Found(log, "ocr")
\* The step appended a status mark to the record: the image has that status then.
StatusWritten(old, new) ==
    (Len(new) > Len(old) /\ new[Len(new)].op \in {"processing", "completed"}
                         /\ new[Len(new)].n >= 0) =>
        db'.status[new[Len(new)].image] =
            IF new[Len(new)].op = "processing" THEN IMG_PROCESSING ELSE IMG_COMPLETED
\* The exception message of a failing collaborator call.
FailureMessage(op) == IF op = "detect" THEN "detection failed" ELSE "ocr failed"

\* C16: every basic run, job or stream, goes through its stages strictly in order (per
\* image, in index order: marked Processing, detection, extraction, marked Completed);
\* hypothesis generation is called only after the last image is Completed, with the
\* evidence of all images, and exactly once in a run that succeeds.
C16_SequentialStages ==
    /\ [](\A j \in DOMAIN run :
            /\ Sequential(run[j].log, run[j].total)
            /\ (run[j].pc = "done" /\ run[j].err = None /\ run[j].total > 0) =>
                  Len(SelectSeq(run[j].log, LAMBDA d : d.op = "nlp")) = 1)
    /\ [](stream.basic =>
            /\ Sequential(stream.log, stream.total)
            /\ (stream.events # <<>> /\ LastEvent.event = "complete") =>
                  Len(SelectSeq(stream.log, LAMBDA d : d.op = "nlp")) = 1)
    /\ [][/\ \A j \in DOMAIN run : StatusWritten(run[j].log, run'[j].log)
          /\ stream.basic => StatusWritten(stream.log, stream'.log)]_vars

\* A job over two images, with objects and texts found, ran to its end.
C16_Witness ==
    \E j \in DOMAIN run :
        /\ run[j].pc = "done" /\ run[j].err = None /\ run[j].total = 2
        /\ Len(run[j].log) = 10 /\ run[j].log[9] = Generated(2, 1)
        /\ heap[j].status = COMPLETED

\* The events up to the text events of a successful stream over n images.
ExpectedHead(basic, n) ==
    <<Event("start", StartData(n))>>
    \o (IF basic
        THEN [p \in 1..(2 * n) |->
                Event("progress", ProgressOf((p + 1) \div 2, n,
                                             IF p % 2 = 1 THEN "detection" ELSE "ocr"))]
        ELSE [p \in 1..n |-> Event("progress", ProgressOf(p, n, "processing"))])
    \o <<Event("progress", StepData("nlp"))>>

\* C17: a stream that yielded complete has yielded exactly: start; for a basic run
\* progress detection and progress ocr for each image in order, for a premium run
\* progress processing for each image in order; one progress nlp; text events only;
\* complete.
C17_EventSequence ==
    (stream.events # <<>> /\ LastEvent.event = "complete") =>
        LET ev == stream.events
            head == ExpectedHead(stream.basic, stream.total)
        IN /\ stream.total = images_of(stream.conversation) \/ ~db.conv
           /\ Len(ev) > Len(head)
           /\ SubSeq(ev, 1, Len(head)) = head
           /\ \A i \in (Len(head) + 1)..(Len(ev) - 1) : ev[i].event = "text"

\* A basic stream over two images completed after yielding text.
C17_Witness ==
    /\ Exhausted /\ stream.basic /\ stream.total = 2
    /\ LastEvent.event = "complete" /\ NumTexts(stream) >= 1
    /\ Len(stream.events) = 7 + NumTexts(stream)

\* C18: a premium run makes no detection or extraction call; what it does is, in this
\* order: every image marked Processing, one vision call with the URLs of all images
\* in image order, every image marked Completed, the assistant message; and no text
\* is yielded once an image is marked Completed.
C18_PremiumOrder ==
    /\ [](~stream.basic =>
            /\ Len(stream.log) <= 2 * stream.total + 2
            /\ \A p \in 1..Len(stream.log) :
                  /\ stream.log[p].op = PremiumStep(p, stream.total).op
                  /\ stream.log[p].image = PremiumStep(p, stream.total).image
                  /\ (stream.log[p].op = "vision" /\ stream.log[p].n >= 0) =>
                        stream.log[p].urls = [i \in 1..stream.total |-> get_presigned_url(i)])
    /\ [][(/\ ~stream.basic
           /\ \E p \in 1..Len(stream.log) : stream.log[p].op = "completed") =>
                TextsOf(stream'.events) = TextsOf(stream.events)]_vars
    /\ [][~stream.basic => StatusWritten(stream.log, stream'.log)]_vars

\* A premium stream over two images completed: four status marks, one vision call,
\* the message.
C18_Witness ==
    /\ Exhausted /\ ~stream.basic /\ stream.total = 2 /\ Len(stream.log) = 6
    /\ stream.log[3] = Viewed(<<get_presigned_url(1), get_presigned_url(2)>>)
    /\ LastEvent.event = "complete" /\ NumTexts(stream) >= 1

\* C19: a detection or extraction call that raised is the last thing the run does to
\* its collaborators (no retry, no call for a later image, no hypothesis generation),
\* and the run ends with the failure signal carrying the exception's message: the job,
\* while it is in the registry, Failed with that error; the exhausted stream with the
\* error event as its last event.
C19_StageFailureAborts ==
    /\ [](\A j \in DOMAIN run : \A p \in 1..Len(run[j].log) :
            (run[j].log[p].op \in {"detect", "ocr"} /\ run[j].log[p].n < 0) =>
                /\ p = Len(run[j].log)
                /\ run[j].err = Some(FailureMessage(run[j].log[p].op))
                /\ (run[j].pc \in {"close", "done"} /\ InStore(j)) =>
                      /\ heap[j].status = FAILED
                      /\ heap[j].error = Some(FailureMessage(run[j].log[p].op)))
    /\ [](\A p \in 1..Len(stream.log) :
            (stream.log[p].op \in {"detect", "ocr"} /\ stream.log[p].n < 0) =>
                /\ p = Len(stream.log)
                /\ Exhausted =>
                      LastEvent = Event("error", ErrorData(FailureMessage(stream.log[p].op))))
    /\ [][/\ \A j \in DOMAIN run : SubSeq(run'[j].log, 1, Len(run[j].log)) = run[j].log
          /\ stream.pc # "none" => SubSeq(stream'.log, 1, Len(stream.log)) = stream.log]_vars

\* A basic stream whose extraction raised on the second image, ended by the error.
C19_Witness ==
    /\ Exhausted /\ stream.basic /\ stream.total = 2
    /\ Len(stream.log) = 7 /\ stream.log[7] = Failing("ocr", 2)
    /\ LastEvent = Event("error", ErrorData("ocr failed"))

\* C20: in job mode an exception raised during the run leaves the job, while it is
\* in the registry, Failed with the exception's message as its error; every poll that
\* finds the job failed answers Failed with that error and no result; a poll for a
\* deleted job finds nothing.
C20_FailedIsReported ==
    /\ [](\A j \in DOMAIN run :
            (run[j].err # None /\ run[j].pc \in {"close", "done"} /\ InStore(j)) =>
                /\ heap[j].status = FAILED
                /\ heap[j].error = run[j].err
                /\ heap[j].result = None)
    /\ []((poll.pc = "done" /\ poll.failed) =>
            /\ poll.resp.status = FAILED
            /\ poll.resp.error # None
            /\ poll.resp.error = heap[poll.id].error
            /\ run[poll.id].err # None => poll.resp.error = run[poll.id].err
            /\ poll.resp.result = None)
    /\ [][\A id \in JobIds :
            (poll'.pc = "status" /\ poll.pc \in {"idle", "done"} /\ poll'.id = id) =>
                InStore(id)]_vars

\* A poll that found the job failed in text extraction has answered.
C20_Witness ==
    /\ poll.pc = "done" /\ poll.failed
    /\ poll.resp.status = FAILED /\ poll.resp.error = Some("ocr failed")
    /\ run[poll.id].pc = "done"

(* ------------------ claims about failures and messages ----------------- *)
\* The assistant messages a run has committed, in its record.
MessagesOf(log) == SelectSeq(log, LAMBDA d : d.op = "message" /\ d.n >= 0)
\* The values a job has had with status Completed.
CompletedValues(j) == {s \in snaps[j] : s.status = COMPLETED}

\* C21: no exception of a collaborator call, db.close() included, leaves a run: no
\* job body and no generator ends with an exception, and a run in which a call
\* raised ends with its failure signal (the job, while it is in the registry, Failed;
\* the exhausted stream with the error event).
C21_NothingEscapes ==
    /\ \A j \in DOMAIN run :
          /\ ~run[j].escaped
          /\ (run[j].pc = "done" /\ run[j].err # None /\ InStore(j)) =>
                heap[j].status = FAILED
    /\ ~stream.escaped
    /\ (Exhausted /\ stream.err # None) => LastEvent.event = "error"

\* C22: a job that reached Completed and a stream that yielded complete have
\* committed exactly one assistant message, in a step that added one message to the
\* store; the hypothesis they report is that message's content and the message_id
\* they report is the text of its id.
C22_OneMessagePerCompletedRun ==
    /\ [](\A j \in DOMAIN run : \A s \in CompletedValues(j) :
            /\ Len(MessagesOf(run[j].log)) = 1
            /\ s.result # None
            /\ s.result[1].hypothesis = MessagesOf(run[j].log)[1].text
            /\ s.result[1].message_id = str(MessagesOf(run[j].log)[1].n))
    /\ []((stream.events # <<>> /\ LastEvent.event = "complete") =>
            /\ Len(MessagesOf(stream.log)) = 1
            /\ LastEvent.data["hypothesis"] = MessagesOf(stream.log)[1].text
            /\ LastEvent.data["message_id"] = str(MessagesOf(stream.log)[1].n))
    /\ [][/\ \A j \in DOMAIN run :
                Len(MessagesOf(run'[j].log)) > Len(MessagesOf(run[j].log)) =>
                    /\ db'.messages = db.messages + 1
                    /\ MessagesOf(run'[j].log)[Len(MessagesOf(run'[j].log))].n = db'.messages
          /\ Len(MessagesOf(stream'.log)) > Len(MessagesOf(stream.log)) =>
                /\ db'.messages = db.messages + 1
                /\ MessagesOf(stream'.log)[Len(MessagesOf(stream'.log))].n = db'.messages]_vars

\* A job completed with the hypothesis " a", which is the content of its one message.
C22_Witness ==
    \E j \in DOMAIN run :
        /\ run[j].pc = "done" /\ InStore(j) /\ heap[j].status = COMPLETED
        /\ heap[j].result[1].hypothesis = <<" ", "a">>
        /\ MessagesOf(run[j].log) = <<Persisted(1, <<" ", "a">>)>>
        /\ db.messages = 1

\* In record `log` of a run over n images, everything that has to precede a
\* committed message precedes the one at position p: every image marked Completed,
\* and the call that generates the hypothesis returned.
MessageInTime(log, n, p) ==
    /\ \A i \in 1..n : \E q \in 1..(p - 1) : log[q] = MarkedCompleted(i)
    /\ \E q \in 1..(p - 1) : log[q].op \in {"nlp", "vision"} /\ log[q].n >= 0
\* The messages the runs have committed between them.
MessagesCommitted ==
    Len(MessagesOf(stream.log)) + Len(MessagesOf(sync.log))
    + Cardinality({j \in DOMAIN run : MessagesOf(run[j].log) # <<>>})

\* C23: a run commits its assistant message only after it marked every one of its
\* images Completed and hypothesis generation returned (in a stream: after the last
\* text event); the conversation holds one message per message so committed, so a run
\* that stopped earlier has left none.
C23_MessageLast ==
    /\ [](\A j \in DOMAIN run : \A p \in 1..Len(run[j].log) :
            (run[j].log[p].op = "message" /\ run[j].log[p].n >= 0) =>
                /\ MessageInTime(run[j].log, run[j].total, p)
                /\ run[j].total > 0)
    /\ [](\A p \in 1..Len(stream.log) :
            (stream.log[p].op = "message" /\ stream.log[p].n >= 0) =>
                /\ MessageInTime(stream.log, stream.total, p)
                /\ stream.total > 0)
    /\ [](db.conv => db.messages = MessagesCommitted)
    /\ [](\A j \in DOMAIN run : Len(MessagesOf(run[j].log)) <= 1)
    /\ [][MessagesOf(stream.log) # <<>> =>
            TextsOf(stream'.events) = TextsOf(stream.events)]_vars

\* A premium stream over two images whose vision call raised after a text event: no
\* message in its record, none in the store.
C23_Witness ==
    /\ Exhausted /\ ~stream.basic /\ stream.total = 2
    /\ stream.err = Some("generation failed") /\ NumTexts(stream) >= 1
    /\ MessagesOf(stream.log) = <<>> /\ db.conv /\ db.messages = 0

\* The number of items the call `op` for image i returned, in a run's record.
ItemsOf(log, op, i) ==
    Found(SelectSeq(log, LAMBDA d : d.image = i), op)
\* What a basic run with this record has committed for the images it marked
\* Completed is in the store: the status, and one row per object and text found.
EvidenceKept(log) ==
    \A p \in 1..Len(log) :
        (log[p].op = "completed" /\ log[p].n >= 0) =>
            /\ log[p].image <= db.nimg
            /\ db.status[log[p].image] = IMG_COMPLETED
            /\ db.objects[log[p].image] = ItemsOf(log, "detect", log[p].image)
            /\ db.texts[log[p].image] = ItemsOf(log, "ocr", log[p].image)

\* C24: in a basic run (job or synchronous request) each image is committed when it
\* is done: while the conversation exists, every image the run marked Completed has
\* that status and its evidence rows in the store, whatever happens to the run later
\* (a call for a later image raising, the session closed); no step of a run takes
\* committed rows away.
C24_PerImageCommit ==
    /\ [](db.conv => /\ \A j \in DOMAIN run : EvidenceKept(run[j].log)
                     /\ EvidenceKept(sync.log))
    /\ [][(db'.conv /\ db'.nimg = db.nimg) => \A i \in 1..db.nimg :
            /\ db'.objects[i] >= db.objects[i]
            /\ db'.texts[i] >= db.texts[i]]_vars

\* A job over two images failed in the extraction of the second: the first image is
\* Completed with its rows, the second is left Processing and its object row is gone.
C24_Witness ==
    \E j \in DOMAIN run :
        /\ run[j].pc = "done" /\ run[j].total = 2 /\ run[j].err = Some("ocr failed")
        /\ Len(run[j].log) = 7 /\ run[j].log[6] = Detected(2, 1)
        /\ db.conv /\ db.status = <<IMG_COMPLETED, IMG_PROCESSING>>
        /\ db.objects = <<1, 0>> /\ db.texts = <<1, 0>>

\* C25: every value a job has with status Completed carries a result with the four
\* fields message_id, hypothesis, objects_detected and texts_extracted; the run has
\* called detection and extraction once for each of its images, and objects_detected
\* and texts_extracted are the numbers of items those calls returned in all.
C25_ResultCounts ==
    \A j \in DOMAIN run : \A s \in CompletedValues(j) :
        /\ s.result # None
        /\ DOMAIN s.result[1] =
              {"message_id", "hypothesis", "objects_detected", "texts_extracted"}
        /\ \A i \in 1..run[j].total :
              /\ Len(SelectSeq(run[j].log, LAMBDA d : d.op = "detect" /\ d.image = i)) = 1
              /\ Len(SelectSeq(run[j].log, LAMBDA d : d.op = "ocr" /\ d.image = i)) = 1
        /\ s.result[1].objects_detected = Found(run[j].log, "detect")
        /\ s.result[1].texts_extracted = Found(run[j].log, "ocr")
        /\ s.result[1].message_id = str(run[j].msg)
        /\ s.result[1].hypothesis = run[j].hypothesis

\* A job over two images completed: an object in each image, a text in the second.
C25_Witness ==
    \E j \in DOMAIN run :
        /\ InStore(j) /\ heap[j].status = COMPLETED /\ run[j].total = 2
        /\ run[j].log[2] = Detected(1, 1) /\ run[j].log[3] = Extracted(1, 0)
        /\ run[j].log[6] = Detected(2, 1) /\ run[j].log[7] = Extracted(2, 1)
        /\ heap[j].result[1].objects_detected = 2
        /\ heap[j].result[1].texts_extracted = 1

\* C26: a POST /jobs that succeeds puts the job into the registry, Pending, in the
\* step that schedules its task (the body is still to start) and answers with the
\* job's id and status "pending"; the job is Pending as long as its body has not
\* started; a job leaves the registry only through a delete (a step that changes
\* nothing but the registry), so until then get_job for the id returns the job.
C26_SubmitCreatesPending ==
    /\ [][\A j \in (DOMAIN run') \ (DOMAIN run) :
            /\ ~InStore(j) /\ InStore(j)'
            /\ heap'[j].status = PENDING
            /\ run'[j].pc = "queued"
            /\ run'[j].response = Some(JobResponse(j, "pending"))]_vars
    /\ [](\A j \in DOMAIN run :
            /\ run[j].response = Some(JobResponse(j, "pending"))
            /\ run[j].pc = "queued" => heap[j].status = PENDING
            /\ InStore(j) => get_job(j) = Some(j))
    /\ [][\A j \in DOMAIN run :
            (InStore(j) /\ ~InStore(j)') =>
                /\ jobs' = delete_job(j)
                /\ UNCHANGED <<heap, run, db>>]_vars

\* A submitted job whose body ran to its end is still found by get_job.
C26_Witness ==
    \E j \in DOMAIN run :
        /\ run[j].response = Some(JobResponse(j, "pending"))
        /\ run[j].pc = "done" /\ heap[j].status = COMPLETED
        /\ get_job(j) = Some(j)

\* C27: when every call of a started job body returns or raises in the end, a job
\* whose body has started is later Completed or Failed, unless it is deleted.
C27_JobsTerminate ==
    \A j \in JobIds :
        [](Started(j) => <>(IF InStore(j) THEN Terminal(heap[j].status) ELSE TRUE))

\* A job that stayed in the registry has failed in hypothesis generation, its last
\* stage.
C27_Witness ==
    \E j \in DOMAIN run :
        /\ InStore(j) /\ run[j].pc = "done"
        /\ heap[j].status = FAILED /\ heap[j].error = Some("generation failed")
        /\ heap[j].current_step = Some("nlp")

(* --------------- claims about the two delivery modes ------------------- *)
\* The stage labels written to the job's current_step, in order.
JobLabels(j) == SelectSeq(run[j].steps, LAMBDA s : s \in {"detection", "ocr", "nlp"})
\* The step values of the stream's progress events, in order.
StreamLabels ==
    LET progress == SelectSeq(stream.events, LAMBDA e : e.event = "progress")
    IN [p \in 1..Len(progress) |-> progress[p].data["step"]]
\* Job j and the stream have both ended, and every call had the same outcome in both.
BothEnded(j) ==
    /\ run[j].pc = "done" /\ Exhausted
    /\ Replaying(j)
    /\ (stream.err = Some("query failed")) <=> (run[j].err = Some("query failed"))
\* The two runs did the same things in the same order and wrote the same labels, and
\* ended in corresponding ways.
SameCourse(j) ==
    /\ stream.total = run[j].total
    /\ OutcomesOf(stream.log) = OutcomesOf(run[j].log)
    /\ StreamLabels = JobLabels(j)
    /\ (heap[j].status = COMPLETED) <=> (LastEvent.event = "complete")
    /\ (heap[j].status = FAILED) <=> (LastEvent.event = "error")

\* C28: a job and a basic stream over the same images whose collaborators answered
\* alike have made the same status changes, detection and extraction calls and
\* commits in the same order, written the same stage labels, and ended in
\* corresponding ways with the same text: the error of the Failed job is the error
\* of the error event, the hypothesis of the Completed job is that of complete.
C28_ModesEquivalent ==
    \A j \in DOMAIN run :
        BothEnded(j) =>
            /\ SameCourse(j)
            /\ heap[j].status = FAILED => heap[j].error = Some(LastEvent.data["error"])
            /\ heap[j].status = COMPLETED =>
                  heap[j].result[1].hypothesis = LastEvent.data["hypothesis"]

\* C28, what the code does keep: the same course in both modes; the same error text
\* except for a conversation that is not found (the job names the conversation in
\* its message); the hypothesis of complete is the job's hypothesis trimmed.
C28_SameCourse ==
    \A j \in DOMAIN run :
        BothEnded(j) =>
            /\ SameCourse(j)
            /\ heap[j].status = FAILED =>
                  \/ heap[j].error = Some(LastEvent.data["error"])
                  \/ /\ heap[j].error = Some(not_found_message(run[j].conversation))
                     /\ LastEvent.data["error"] = "Conversation not found"
            /\ heap[j].status = COMPLETED =>
                  /\ strip(heap[j].result[1].hypothesis) = LastEvent.data["hypothesis"]
                  /\ heap[j].result[1].hypothesis = Joined(TextsOf(stream.events))

\* A job and a stream over two images ended alike, the model having answered " a":
\* the job reports " a", complete reports "a".
C28_Witness ==
    \E j \in DOMAIN run :
        /\ BothEnded(j) /\ run[j].total = 2
        /\ heap[j].status = COMPLETED /\ LastEvent.event = "complete"
        /\ heap[j].result[1].hypothesis = <<" ", "a">>
        /\ LastEvent.data["hypothesis"] = <<"a">>
        /\ StreamLabels = <<"detection", "ocr", "detection", "ocr", "nlp">>

(* ------------------- claims about the evidence context ----------------- *)
\* The bucket of a confidence, by its upper bounds.
Bucket(c) == IF c < 500 THEN "[LOW]" ELSE IF c < 800 THEN "[MEDIUM]" ELSE "[HIGH]"

\* C29: _confidence_label returns a label for every confidence of 0..1 (in
\* thousandths): HIGH exactly from 0.8 up, MEDIUM exactly from 0.5 up to below 0.8,
\* LOW exactly below 0.5; so 0.8 is HIGH, 0.79 and 0.5 are MEDIUM, 0.49 and 0 LOW.
C29_LabelBuckets ==
    chat.pc = "labelled" =>
        /\ chat.label \in {"[HIGH]", "[MEDIUM]", "[LOW]"}
        /\ chat.label = "[HIGH]" <=> chat.confidence >= 800
        /\ chat.label = "[MEDIUM]" <=> (500 <= chat.confidence /\ chat.confidence < 800)
        /\ chat.label = "[LOW]" <=> chat.confidence < 500
        /\ chat.confidence = 800 => chat.label = "[HIGH]"
        /\ chat.confidence \in {790, 500} => chat.label = "[MEDIUM]"
        /\ chat.confidence \in {490, 0} => chat.label = "[LOW]"

\* The confidence 0.8, the lowest that is HIGH, has been labelled.
C29_Witness ==
    chat.pc = "labelled" /\ chat.confidence = 800 /\ chat.label = "[HIGH]"

\* The object rows and the text rows of the images, in the order of the images.
RECURSIVE RowsOf(_, _)
RowsOf(images, field) ==
    IF images = <<>> THEN <<>> ELSE images[1][field] \o RowsOf(Tail(images), field)
\* The confidence a text row is bucketed by: its own, 0.7 when it has none.
TextConfidence(t) == IF t.confidence = None THEN 700 ELSE t.confidence[1]
\* The pieces of the tokens toks, each of w pieces, with ", " between two tokens.
CommaJoined(toks, w) ==
    [p \in 1..((w + 1) * Len(toks) - 1) |->
        IF p % (w + 1) = 0 THEN ", " ELSE toks[(p - 1) \div (w + 1) + 1][p % (w + 1)]]
\* The object rows as [BUCKET] label tokens; the literal for no row.
ObjectsRendered(objs) ==
    IF objs = <<>> THEN <<"No objects detected">>
    ELSE CommaJoined([k \in 1..Len(objs) |->
                         <<Bucket(objs[k].confidence), " ", objs[k].label>>], 3)
\* The text rows as [BUCKET] "text" tokens; the literal for no row.
TextsRendered(txts) ==
    IF txts = <<>> THEN <<"No text extracted">>
    ELSE CommaJoined([k \in 1..Len(txts) |->
                         <<Bucket(TextConfidence(txts[k])), " \"", txts[k].text, "\"">>], 4)
\* The text rows as [BUCKET] text tokens, like the object rows.
TextsRenderedPlain(txts) ==
    IF txts = <<>> THEN <<"No text extracted">>
    ELSE CommaJoined([k \in 1..Len(txts) |->
                         <<Bucket(TextConfidence(txts[k])), " ", txts[k].text>>], 3)
\* The context with the two lists in it.
Rendered(objects_str, texts_str) ==
    <<"Evidence from the scene:\nObjects detected: ">> \o objects_str
    \o <<"\nText found: ">> \o texts_str

StageOf(op) ==
    CASE op = "detect" -> "detection"
      [] op \in {"ocr", "completed"} -> "ocr"
      [] OTHER -> "nlp"

\* C36: for a job run_analysis_job drives, always: current_step is "complete" exactly
\* when the status is Completed, exactly when there is a result; the update that sets
\* Failed leaves current_step and progress as they were; a Failed job's current_step
\* is validating, detection, ocr or nlp, and when a detection, an extraction, the
\* commit after it, the generation or the saving of the message raised, it is the
\* stage of that call.
C36_StepStatusResult ==
    /\ [](\A j \in DOMAIN run :
            /\ (heap[j].current_step = Some("complete")) <=> (heap[j].status = COMPLETED)
            /\ (heap[j].status = COMPLETED) <=> (heap[j].result # None)
            /\ heap[j].status = FAILED =>
                  /\ heap[j].current_step \in
                        {Some("validating"), Some("detection"), Some("ocr"), Some("nlp")}
                  /\ (run[j].log # <<>> /\ run[j].log[Len(run[j].log)].n < 0
                         /\ run[j].log[Len(run[j].log)].op # "processing") =>
                        heap[j].current_step = Some(StageOf(run[j].log[Len(run[j].log)].op)))
    /\ [][\A j \in DOMAIN run :
            (heap[j].status # FAILED /\ heap'[j].status = FAILED) =>
                /\ heap'[j].current_step = heap[j].current_step
                /\ heap'[j].progress = heap[j].progress]_vars

\* A job that failed in the extraction of its second image: it is at "ocr", with
\* the progress of that stage.
C36_Witness ==
    \E j \in DOMAIN run :
        /\ heap[j].status = FAILED /\ run[j].pc = "done"
        /\ run[j].log # <<>>
        /\ run[j].log[Len(run[j].log)] = Failing("ocr", 2)
        /\ heap[j].current_step = Some("ocr")
        /\ heap[j].progress = ProgressOf(2, 2, "ocr")
        /\ heap[j].result = None

\* C35: a run that ended with the failure signal (the job Failed, the stream's last
\* event `error`) has committed no assistant message, whichever call raised, the
\* commit and the refresh of the message included.
C35_FailureLeavesNoMessage ==
    /\ \A j \in DOMAIN run : heap[j].status = FAILED => MessagesOf(run[j].log) = <<>>
    /\ (stream.events # <<>> /\ LastEvent.event = "error") => MessagesOf(stream.log) = <<>>

(* ------------------- claims about aborted runs ------------------------- *)
\* The run with this record broke off in the detection or the extraction of an image.
AbortedInImage(log) ==
    IF log = <<>> THEN FALSE
    ELSE log[Len(log)].n < 0 /\ log[Len(log)].op \in {"detect", "ocr"}
\* The image such a run left: Processing, and without a row (the store had none
\* for it before the run).
LeftProcessing(log) ==
    LET k == log[Len(log)].image
    IN k <= db.nimg =>
          db.status[k] = IMG_PROCESSING /\ db.objects[k] = 0 /\ db.texts[k] = 0

\* C34: in a basic run (job or stream) the rows of an image are committed by the
\* commit that marks it Completed: the rows of an image change only in a step that
\* leaves it Completed; when the run aborts in the detection or the extraction of
\* image k, image k is left Processing with none of its rows committed, also after
\* the session is closed; and no image ever has a status other than Pending,
\* Processing or Completed (none is set to Failed).
C34_AbortLeavesProcessing ==
    /\ [](db.conv =>
            /\ \A j \in DOMAIN run : AbortedInImage(run[j].log) => LeftProcessing(run[j].log)
            /\ AbortedInImage(stream.log) => LeftProcessing(stream.log))
    /\ [](\A i \in 1..db.nimg : db.status[i] \in {IMG_PENDING, IMG_PROCESSING, IMG_COMPLETED})
    /\ [][(db'.conv /\ db'.nimg = db.nimg) => \A i \in 1..db.nimg :
            (db'.objects[i] # db.objects[i] \/ db'.texts[i] # db.texts[i]) =>
                db'.status[i] = IMG_COMPLETED /\ db.status[i] = IMG_PROCESSING]_vars

\* A basic stream over one image whose extraction raised after the detection had
\* found an object: the image is Processing and has no row.
C34_Witness ==
    /\ Exhausted /\ stream.basic /\ stream.total = 1
    /\ stream.err = Some("ocr failed") /\ stream.objects = 1
    /\ LastEvent.event = "error"
    /\ db.conv /\ db.status = <<IMG_PROCESSING>> /\ db.objects = <<0>> /\ db.texts = <<0>>

(* ------------------- claims about runs sharing a conversation ------------------ *)
\* The number of items the calls `op` for image i returned to the jobs in S.
RECURSIVE ItemsOfJobs(_, _, _)
ItemsOfJobs(S, op, i) ==
    IF S = {} THEN 0
    ELSE LET j == CHOOSE k \in S : TRUE
         IN ItemsOf(run[j].log, op, i) + ItemsOfJobs(S \ {j}, op, i)

\* Every run that was started on the conversation has ended with its analysis done.
AllRunsSucceeded ==
    /\ \A j \in DOMAIN run : run[j].pc = "done" /\ heap[j].status = COMPLETED
    /\ stream.pc # "none" => Exhausted /\ stream.events # <<>> /\ LastEvent.event = "complete"
    /\ DOMAIN run # {} \/ stream.pc # "none"

\* C38: runs at work on one conversation at the same time are not kept apart: once
\* every run over it has ended with its analysis done, every image is Completed and
\* has one row per object and per text that each of the runs found for it, the rows
\* of the runs side by side.
C38_RunsAddUp ==
    (db.conv /\ AllRunsSucceeded) =>
        \A i \in 1..db.nimg :
            /\ db.status[i] = IMG_COMPLETED
            /\ db.objects[i] = ItemsOfJobs(DOMAIN run, "detect", i)
                                  + ItemsOf(stream.log, "detect", i)
            /\ db.texts[i] = ItemsOfJobs(DOMAIN run, "ocr", i)
                                  + ItemsOf(stream.log, "ocr", i)

\* A job and a stream have both analysed the two images; each found an object in the
\* first image, which now has two rows.
C38_Witness ==
    /\ db.conv /\ db.nimg = 2 /\ AllRunsSucceeded
    /\ stream.pc = "done"
    /\ \E j \in DOMAIN run :
          /\ ItemsOf(run[j].log, "detect", 1) = 1
          /\ ItemsOf(stream.log, "detect", 1) = 1
    /\ db.objects[1] >= 2
    /\ db.status = <<IMG_COMPLETED, IMG_COMPLETED>>

\* An image is back at Processing after a run marked it Completed.
StatusWentBack ==
    /\ db.conv /\ db.nimg >= 1 /\ db.status[1] = IMG_PROCESSING
    /\ \E j \in DOMAIN run :
          \E p \in 1..Len(run[j].log) : run[j].log[p] = MarkedCompleted(1)

(* ----------------------- claims about the store session ----------------------- *)
\* The sessions that runs have opened and not closed.
OpenSessions ==
    {run[j].session : j \in {k \in DOMAIN run : run[k].session # 0 /\ run[k].closes = 0}}
        \cup (IF stream.session # 0 /\ stream.closes = 0 THEN {stream.session} ELSE {})

\* C33: the session a run opens is its own and is closed exactly once however the
\* run ends: no two runs have the same session; a run that has ended (with its
\* analysis done, after a failed validation, after an exception, or closed by the
\* consumer's disconnect) has called db.close() once, and a run that has not ended
\* has not called it; after a disconnect the stream emits no event and the store
\* gets no message.
C33_SessionOwnedClosedOnce ==
    /\ [](/\ \A j \in DOMAIN run :
                /\ run[j].closes = (IF run[j].pc = "done" THEN 1 ELSE 0)
                /\ (run[j].session = 0) <=> (run[j].pc = "queued")
                /\ \A k \in DOMAIN run : (j # k /\ run[j].session # 0) =>
                                             run[j].session # run[k].session
                /\ run[j].session # 0 => run[j].session # stream.session
          /\ stream.closes = (IF stream.pc = "done" THEN 1 ELSE 0)
          /\ (stream.session = 0) <=> (stream.pc \in {"none", "query_conversation"}))
    /\ [][(stream'.closed /\ ~stream.closed) =>
              /\ stream.session # 0 /\ stream.closes = 0 /\ stream'.closes = 1
              /\ stream'.events = stream.events
              /\ db' = db]_vars
    /\ [][stream.closed =>
              /\ stream'.events = stream.events /\ stream'.closes = stream.closes
              /\ stream'.log = stream.log]_vars

\* A stream closed by the disconnect of its consumer after the detection event of
\* its first image: its session is closed, and the store has no message.
C33_Witness ==
    /\ stream.pc = "done" /\ stream.closed /\ stream.closes = 1 /\ stream.session # 0
    /\ stream.events # <<>>
    /\ LastEvent = Event("progress", ProgressOf(1, 1, "detection"))
    /\ MessagesOf(stream.log) = <<>>
    /\ db.conv /\ db.messages = 0

\* Two jobs at work at the same time, each with its open session.
TwoSessionsOpen == Cardinality(OpenSessions) = 2

(* -------------------------- claims about submission --------------------------- *)
\* C39: a POST /jobs request for a conversation that is not found is answered 404
\* "Conversation not found", and one for a conversation without images 400 "No images
\* in conversation"; the step that gives either answer creates no job and schedules
\* no body (the registry, the Job objects and the scheduled tasks stay as they were,
\* and so does the relational store), while the step that accepts a request adds
\* exactly the job it answers with.
C39_RejectedSubmission ==
    /\ [][submit' # submit =>
            LET c == submit'.conversation
            IN /\ ~conversation_found(c) =>
                     /\ submit'.status_code = 404 /\ submit'.detail = "Conversation not found"
               /\ (conversation_found(c) /\ images_of(c) = 0) =>
                     /\ submit'.status_code = 400
                     /\ submit'.detail = "No images in conversation"
               /\ (conversation_found(c) /\ images_of(c) > 0) => submit'.status_code = 200
               /\ submit'.status_code # 200 =>
                     /\ submit'.job_id = None
                     /\ UNCHANGED <<jobs, heap, issued, run, snaps, db>>
               /\ submit'.status_code = 200 =>
                     /\ submit'.job_id # None
                     /\ jobs' = Append(jobs, submit'.job_id[1])
                     /\ DOMAIN run' = DOMAIN run \cup {submit'.job_id[1]}]_vars
    /\ [](submit.status_code \in {0, 200, 400, 404})

\* After a job was created and the conversation deleted, a second request for the
\* conversation was answered 404: the registry still holds the one job.
C39_Witness ==
    /\ submit = HTTPException("c1", 404, "Conversation not found")
    /\ Len(jobs) = 1 /\ DOMAIN run = {jobs[1]}

\* A request for a conversation without images was answered 400.
RejectedForNoImages ==
    /\ submit = HTTPException("c1", 400, "No images in conversation")
    /\ jobs = <<>> /\ DOMAIN run = {}

(* ----------------------- claims about the body's validation ------------------- *)
\* The errors the validation of run_analysis_job gives job j.
ValidationErrors(j) ==
    {Some(not_found_message(run[j].conversation)), Some("No images in conversation")}
\* Job j has failed in its body's validation.
FailedValidation(j) ==
    IF j \in DOMAIN heap THEN heap[j].status = FAILED /\ heap[j].error \in ValidationErrors(j)
    ELSE FALSE

\* C40: the body looks the conversation and its images up again. While the job is in
\* the registry: a body that finds no conversation fails the job with the message
\* naming the conversation, and one that finds no image with "No images in
\* conversation"; the job was Running at "validating" and stays at that step; it has
\* only ever been Pending, Running at "validating", and Failed; its body has called
\* no detector, extractor or language model and written nothing to the relational
\* store.
C40_BodyRevalidates ==
    /\ [](\A j \in DOMAIN run : FailedValidation(j) =>
              /\ run[j].steps = <<"validating">>
              /\ heap[j].current_step = Some("validating")
              /\ heap[j].result = None
              /\ run[j].log = <<>> /\ run[j].hypothesis = <<>>
              /\ run[j].pc \in {"close", "done"}
              /\ \A s \in snaps[j] :
                    \/ s.status = PENDING /\ s.current_step = None
                    \/ s.status = RUNNING /\ s.current_step = Some("validating")
                    \/ s.status = FAILED /\ s.error = heap[j].error)
    /\ [][\A j \in DOMAIN run :
            (InStore(j) /\ run'[j] # run[j] /\ run'[j].err = None) =>
                /\ (run[j].pc = "query_conversation"
                        /\ ~conversation_found(run[j].conversation)) =>
                      /\ heap[j].status = RUNNING /\ heap'[j].status = FAILED
                      /\ heap'[j].error = Some(not_found_message(run[j].conversation))
                /\ (run[j].pc = "query_images" /\ images_of(run[j].conversation) = 0) =>
                      /\ heap[j].status = RUNNING /\ heap'[j].status = FAILED
                      /\ heap'[j].error = Some("No images in conversation")]_vars
    /\ [][\A j \in DOMAIN run :
            (run'[j] # run[j] /\ run'[j].log = <<>>) =>
                db' = [db EXCEPT !.sessions = db'.sessions]]_vars

\* A job whose conversation lost its only image before the body started: it failed
\* with "No images in conversation", and the conversation is still there, as it was.
C40_Witness ==
    \E j \in DOMAIN run :
        /\ FailedValidation(j) /\ run[j].pc = "done"
        /\ heap[j].error = Some("No images in conversation")
        /\ db.conv /\ db.nimg = 0 /\ db.messages = 0

\* A job whose conversation was deleted before the body started.
FailedForNoConversation ==
    \E j \in DOMAIN run :
        /\ FailedValidation(j) /\ run[j].pc = "done"
        /\ heap[j].error = Some("Conversation c1 not found")

(* ------------------- claims about the registry under interleaving ------------- *)
\* The ids in the registry.
Present == {jobs[i] : i \in 1..Len(jobs)}
\* The same after the step.
PresentAfter == {jobs'[i] : i \in 1..Len(jobs')}
\* The Job objects the step has changed.
Touched == {o \in DOMAIN heap : heap'[o] # heap[o]}

\* C37: however the calls of the runners and of the clients follow one another, an
\* update or a delete of one id changes no other job (its object and its presence),
\* a get or a list changes nothing in the registry, and the ids present are those
\* created and not deleted since: an id comes in only as the fresh id of a create,
\* goes out only by its delete, one at a time, and never comes back; no id is held
\* twice.
C37_RegistryFrame ==
    /\ [][(JustCalled("update") \/ JustCalled("delete")) =>
            /\ Touched \subseteq {last'.id}
            /\ DOMAIN heap' = DOMAIN heap
            /\ \A o \in JobIds \ {last'.id} : (o \in Present) <=> (o \in PresentAfter)]_vars
    /\ [][(JustCalled("get") \/ JustCalled("list")) => UNCHANGED <<jobs, heap, issued>>]_vars
    /\ [][/\ Cardinality(Touched) <= 1
          /\ \A o \in Touched :
                \/ JustCalled("update") /\ last'.id = o
                \/ IF o \in DOMAIN run THEN run'[o] # run[o] ELSE FALSE
          /\ PresentAfter \ Present = issued' \ issued
          /\ Cardinality(PresentAfter \ Present) <= 1
          /\ (PresentAfter \ Present # {}) =>
                (JustCalled("create") \/ submit'.job_id # submit.job_id) /\ Touched = {}
          /\ Cardinality(Present \ PresentAfter) <= 1
          /\ (Present \ PresentAfter # {}) =>
                /\ heap' = heap /\ issued' = issued /\ PresentAfter \subseteq Present
                /\ last' # last => JustCalled("delete") /\ Present \ PresentAfter = {last'.id}]_vars
    /\ [](/\ Present \subseteq issued
          /\ DOMAIN heap = issued
          /\ \A i, k \in 1..Len(jobs) : jobs[i] = jobs[k] => i = k)

\* While the body of one job is at its detection step, the client has updated the
\* other job in the registry: the running job's object is as its body left it.
C37_Witness ==
    /\ last.op = "update" /\ last.ret # None
    /\ Cardinality(Present) = 2
    /\ heap[last.id].status = FAILED
    /\ \E j \in (DOMAIN run) \cap (Present \ {last.id}) :
          /\ run[j].pc = "detect"
          /\ heap[j].status = RUNNING /\ heap[j].current_step = Some("detection")

(* --------------------------- claims about polling ----------------------------- *)
\* How far a status is on the way Pending, Running, Completed or Failed.
StatusRank(status) == IF status = PENDING THEN 0 ELSE IF status = RUNNING THEN 1 ELSE 2
\* The current_step values job j has had, in the order its runner wrote them.
StepsWritten(j) == <<None>> \o [p \in 1..Len(run[j].steps) |-> Some(run[j].steps[p])]
\* validating, (detection, ocr) for each of n images, nlp, complete.
RECURSIVE StepsPerImage(_)
StepsPerImage(n) == IF n = 0 THEN <<>> ELSE <<"detection", "ocr">> \o StepsPerImage(n - 1)
StepOrder(n) == <<"validating">> \o StepsPerImage(n) \o <<"nlp", "complete">>

\* C32: of two responses a client gets one after the other when it polls a job, the
\* second never shows an earlier status than the first (Pending, then Running, then
\* Completed or Failed, which stay), and the two current_step values are values the
\* runner wrote, the second written no earlier than the first; the runner writes
\* validating, detection and ocr for each image in turn, nlp, complete, in this
\* order, up to where it stops. Values in between may go unseen.
C32_PollsInOrder ==
    /\ (poll.pc = "done" /\ seen # None) =>
          LET old == seen[1]
              new == poll.resp
              w == StepsWritten(poll.id)
          IN /\ old.id = poll.id
             /\ StatusRank(old.status) <= StatusRank(new.status)
             /\ Terminal(old.status) => new.status = old.status
             /\ \E p, q \in 1..Len(w) :
                   p <= q /\ w[p] = old.current_step /\ w[q] = new.current_step
    /\ \A j \in DOMAIN run : IsPrefix(run[j].steps, StepOrder(run[j].total))

\* A client saw the job Pending without a step and, in its next response, Completed
\* at "complete": it saw none of the steps of the two images.
C32_Witness ==
    /\ poll.pc = "done" /\ seen # None
    /\ seen[1].status = PENDING /\ seen[1].current_step = None
    /\ poll.resp.status = COMPLETED /\ poll.resp.current_step = Some("complete")
    /\ run[poll.id].total = 2

(* ---------------------------- claims about the lock --------------------------- *)
\* Thread t is at a statement inside a `with self._lock:` block.
InCritical(t) == lock.th[t].pc \notin {"out", "with", "upstream"}

\* C31: the JobStore's methods exclude one another: at most one thread is inside a
\* `with self._lock:` block, and it is the holder of the lock; so an update_job call
\* that found its job leaves it, at the end of the block, as the job it found with
\* the call's fields written to it (no write of another thread in between, none of
\* its own lost), and the other Job objects and the dict do not change while a
\* thread is inside update_job; and a thread that is in an upstream call (or in no
\* call at all, or waiting for the lock) does not hold the lock.
C31_LockScopedToOperation ==
    /\ [](/\ Cardinality({t \in Threads : InCritical(t)}) <= 1
          /\ \A t \in Threads :
                /\ InCritical(t) <=> (lock.holder = Some(t))
                /\ lock.th[t].pc = "upstream" => lock.holder # Some(t)
                /\ (lock.th[t].pc = "exit" /\ lock.th[t].op = "update"
                        /\ lock.th[t].before # None) =>
                      heap[lock.th[t].id] =
                          update_fields(lock.th[t].before[1], lock.th[t].a,
                                        heap[lock.th[t].id].updated_at))
    /\ [][\A t \in Threads :
            (InCritical(t) /\ lock.th[t].op = "update") =>
                /\ jobs' = jobs
                /\ \A o \in DOMAIN heap : o # lock.th[t].id => heap'[o] = heap[o]]_vars

\* One thread is in the middle of update_job, having written the status, while the
\* other waits at the `with` of its own update_job of the same job, and the job does
\* not yet have all the fields of the first call.
C31_Witness ==
    \E t, u \in Threads :
        /\ t # u
        /\ lock.holder = Some(t) /\ lock.th[t].op = "update" /\ lock.th[t].pc = "error"
        /\ lock.th[t].a.error # None /\ heap[lock.th[t].id].error = None
        /\ heap[lock.th[t].id].status = FAILED
        /\ lock.th[u].pc = "with" /\ lock.th[u].op = "update" /\ lock.th[u].id = lock.th[t].id

\* A thread is in an upstream call while the other is inside a JobStore method.
UpstreamBesideCritical ==
    \E t, u \in Threads : lock.th[t].pc = "upstream" /\ InCritical(u) /\ lock.holder = Some(u)

====
